---- MODULE Spec2Model ----
(***************************************************************************)
(* Model of the description generator's batch pipeline: the /generate      *)
(* handler, processPagesConcurrently, processSinglePage, the provider      *)
(* services' generateWithRetry / generateDescription / analyzeCompetitor-  *)
(* Content, the DataForSEO fetchers and the TokenUsageTracker ledger.      *)
(*                                                                         *)
(* One step of the model is one run-to-completion turn of the Node event   *)
(* loop: everything the code does between two awaits on I/O or timers.     *)
(***************************************************************************)
EXTENDS Integers, Sequences, FiniteSets, TLC

\* ------------------------------------------------------------ constants

\* SYSTEM_CONFIG.parallel.maxConcurrent
maxConcurrent == 3
\* SYSTEM_CONFIG.parallel.competitorAnalysis
competitorAnalysis == 3
\* default of generateWithRetry's maxRetries parameter
maxRetries == 3
\* BRAND_GUIDELINES.structure.length.min / .max
lengthMin == 350
lengthMax == 500
\* handler: pages.length > 10 is rejected
maxPagesPerRequest == 10
\* getCompetitorContent: default of limit, and the meaningful-content threshold
contentLimit == 3
contentThreshold == 100

\* ------------------------------------------------------------ bounds

\* longest page list of a request in the batch specifications
MaxPages == 4
\* longest page list of a request when two batches overlap
MaxOverlapPages == 2
\* largest number of organic results a SERP response carries
MaxOrganic == 3
\* longest page list of a request when every provider reply is explored
MaxRetryPages == 1

\* ------------------------------------------------------------ values

Batches == {1, 2}
Services == {"OpenAI", "Gemini"}
PageNames == <<"p1", "p2", "p3", "p4", "p5", "p6", "p7", "p8", "p9", "p10", "p11">>

\* JavaScript null / undefined
Null == [tag |-> "null"]
\* JavaScript undefined, where the code tells it from null
Undef == [tag |-> "undefined"]
\* a JavaScript string, as the sequence of its paragraphs; Str(<<>>) is ''
Str(s) == [tag |-> "str", text |-> s]
\* JavaScript truthiness of a nullable string
Truthy(x) == x # Null /\ x.text # <<>>

VARIABLES
  env,                  \* process.env: which credentials are set
  servicesInitialized,  \* generate.js module flag
  services,             \* which of openAI / gemini / dataForSEO are non-null
  usageTracker,         \* usageTracker of each provider service (the ledger)
  request,              \* the request each handler invocation receives
  handler,              \* each handler invocation: position, loop index, results
  page,                 \* per batch, per page: the processSinglePage pipeline
  generator,            \* per batch, per page: how the provider stub behaves
  own,                  \* history: the calls recorded on behalf of each batch
  calls,                \* history: per ledger, its resets and the calls since the last
  lookup                \* a DataForSEOService method called on its own: position, arguments, outcome

vars == <<env, servicesInitialized, services, usageTracker, request, handler,
          page, generator, own, calls, lookup>>

\* ------------------------------------------------------------ ledger

\* TOKEN_PRICING of the model each service is configured with, in 1e-7 $ per token
Pricing(svc) ==
  IF svc = "OpenAI" THEN [input |-> 25, output |-> 100]
                    ELSE [input |-> 3, output |-> 25]

\* Number(x.toFixed(6)) on an amount held in 1e-7 $
toFixed6(x) == ((x + 5) \div 10) * 10

\* Number(x.toFixed(4)) on an amount held in 1e-7 $
toFixed4(x) == ((x + 500) \div 1000) * 1000

calculateCost(svc, inputTokens, outputTokens) ==
  LET inputCost == inputTokens * Pricing(svc).input
      outputCost == outputTokens * Pricing(svc).output
  IN [inputCost |-> toFixed6(inputCost),
      outputCost |-> toFixed6(outputCost),
      totalCost |-> toFixed6(inputCost + outputCost)]

\* TokenUsageTracker.reset; requests is the length of the requests array
reset ==
  [totalInputTokens |-> 0, totalOutputTokens |-> 0, totalCost |-> 0, requests |-> 0]

addRequestOmitsTotals(t, inputTokens, outputTokens, cost) ==
  [t EXCEPT !.requests = @ + 1]

addRequestOverwrites(t, inputTokens, outputTokens, cost) ==
  [totalInputTokens |-> inputTokens,
   totalOutputTokens |-> outputTokens,
   totalCost |-> cost.totalCost,
   requests |-> t.requests + 1]

addRequestAddsInputCost(t, inputTokens, outputTokens, cost) ==
  [totalInputTokens |-> t.totalInputTokens + inputTokens,
   totalOutputTokens |-> t.totalOutputTokens + outputTokens,
   totalCost |-> t.totalCost + cost.inputCost,
   requests |-> t.requests + 1]

addRequest(t, inputTokens, outputTokens, cost) ==
  [totalInputTokens |-> t.totalInputTokens + inputTokens,
   totalOutputTokens |-> t.totalOutputTokens + outputTokens,
   totalCost |-> t.totalCost + cost.totalCost,
   requests |-> t.requests + 1]

MathFloor(a, b) == a \div b

\* Math.round(a / b) for a >= 0, b > 0
MathRound(a, b) == (2 * a + b) \div (2 * b)

getSummary(t) ==
  [totalInputTokens |-> t.totalInputTokens,
   totalOutputTokens |-> t.totalOutputTokens,
   totalTokens |-> t.totalInputTokens + t.totalOutputTokens,
   totalCost |-> toFixed4(t.totalCost),
   requestCount |-> t.requests,
   averageTokensPerRequest |->
     IF t.requests > 0
       THEN MathRound(t.totalInputTokens + t.totalOutputTokens, t.requests)
       ELSE 0]

\* ------------------------------------------------------------ generation

\* A description is held as the number of its words and whether whitespace
\* surrounds it; between two words there is whitespace of any length.
Text(words, padded) == [words |-> words, padded |-> padded]

\* String.prototype.trim on a description
trimText(text) == [text EXCEPT !.padded = FALSE]

\* text.split(/\s+/): the pieces with characters, and the empty pieces, which
\* come from whitespace at either end or from the empty string
splitWhitespace(text) ==
  [filled |-> text.words,
   empty |-> IF text.padded THEN 2 ELSE IF text.words = 0 THEN 1 ELSE 0]

countWordsUnfiltered(text) ==
  LET pieces == splitWhitespace(trimText(text))
  IN pieces.filled + pieces.empty

\* text.trim().split(/\s+/).filter(word => word.length > 0).length
countWords(text) == splitWhitespace(trimText(text)).filled

isValidLengthStrict(wordCount) == wordCount > lengthMin /\ wordCount < lengthMax

isValidLength(wordCount) == wordCount >= lengthMin /\ wordCount <= lengthMax

\* A provider reply to one generation call: ok = FALSE is a rejected call or a
\* reply without choices / candidates / usage; content is Null or a text.
\* generateDescription returns [tracker, threw, result].
generateDescription(svc, t, pageName, r) ==
  IF ~r.ok
    THEN [tracker |-> t, threw |-> TRUE, result |-> Null]
  ELSE IF svc = "Gemini" /\ (r.content = Null \/ trimText(r.content).words = 0)
    \* GeminiService: 'No text content found' is thrown before the ledger is touched
    THEN [tracker |-> t, threw |-> TRUE, result |-> Null]
  ELSE LET cost == calculateCost(svc, r.prompt_tokens, r.completion_tokens)
           recorded == addRequest(t, r.prompt_tokens, r.completion_tokens, cost)
       IN IF r.content = Null
            \* OpenAIService: countWords(null) throws after addRequest has run
            THEN [tracker |-> recorded, threw |-> TRUE, result |-> Null]
            ELSE LET wordCount == countWords(r.content)
                 IN [tracker |-> recorded, threw |-> FALSE,
                     result |-> [pageName |-> pageName, description |-> r.content,
                                 wordCount |-> wordCount,
                                 isValidLength |-> isValidLength(wordCount),
                                 usage |-> [promptTokens |-> r.prompt_tokens,
                                            completionTokens |-> r.completion_tokens,
                                            totalTokens |-> r.prompt_tokens
                                                            + r.completion_tokens,
                                            cost |-> cost.totalCost]]]

loopContinuesAlways(attempt) == TRUE

\* generateWithRetry: for (attempt = 1; attempt <= maxRetries; attempt++)
loopContinuesOneShort(attempt) == attempt < maxRetries

loopContinues(attempt) == attempt <= maxRetries

rethrowsNever(attempt) == FALSE

\* catch: if (attempt === maxRetries) throw error
rethrowsAlways(attempt) == TRUE

rethrows(attempt) == attempt = maxRetries

\* if (attempt < maxRetries) { ... feedback ... }
addsFeedback(attempt) == attempt < maxRetries

wordCountFeedback(wordCount) ==
  IF wordCount < lengthMin
    THEN [only |-> TRUE, words |-> wordCount, must |-> "at least", bound |-> lengthMin]
    ELSE [only |-> FALSE, words |-> wordCount, must |-> "under", bound |-> lengthMax]

prependFeedbackAfter(feedback, competitorInsights) ==
  Str((IF Truthy(competitorInsights) THEN competitorInsights.text ELSE <<>>) \o <<feedback>>)

\* `${wordCountFeedback}\n\n${competitorInsights || ''}`
prependFeedback(feedback, competitorInsights) ==
  Str(<<feedback>> \o (IF Truthy(competitorInsights) THEN competitorInsights.text ELSE <<>>))

\* if (result.isValidLength) return result
returnsAtOnce(result) == result.isValidLength

assignLastResultDropped(result) == Null

\* lastResult = result
assignLastResult(result) == result

\* One turn of generateWithRetry's loop body on the outcome `out` of the call of
\* attempt p.attempt: kind is "return" (value result), "throw", or "retry"
\* (the next call is issued with ctx and lastResult).
generateWithRetryStep(p, out) ==
  IF ~out.threw /\ returnsAtOnce(out.result)
    THEN [kind |-> "return", result |-> out.result]
  ELSE IF out.threw /\ rethrows(p.attempt)
    THEN [kind |-> "throw"]
  ELSE LET lastResult == IF out.threw THEN p.lastResult ELSE assignLastResult(out.result)
           ctx == IF ~out.threw /\ addsFeedback(p.attempt)
                    THEN prependFeedback(wordCountFeedback(out.result.wordCount), p.ctx)
                    ELSE p.ctx
       IN IF loopContinues(p.attempt + 1)
            THEN [kind |-> "retry", ctx |-> ctx, lastResult |-> lastResult]
            ELSE [kind |-> "return", result |-> lastResult]

\* ------------------------------------------------------------ processSinglePage

\* a nullable JavaScript number
Num(v) == [tag |-> "num", v |-> v]

\* a pipeline that has not been called yet
\* history: how the sub-fetches of a pipeline ended and what they produced
NothingFetched == [sv |-> "off", ca |-> "off", searchVolume |-> Null, insights |-> Null]

NotStarted ==
  [pc |-> "notStarted", sv |-> "off", searchVolume |-> Null, ca |-> "off",
   urls |-> <<>>, competitorInsights |-> Null, competitorDomains |-> <<>>,
   attempt |-> 0, ctx |-> Null, lastResult |-> Null, value |-> Null, hist |-> <<>>,
   given |-> Null, fetched |-> NothingFetched]

gatherDoneEither(p) ==
  (p.sv = "done" \/ p.ca = "done") \/ (p.sv = "off" /\ p.ca = "off")

\* await Promise.all(dataPromises) has resolved: both sub-fetches are over
gatherDone(p) == p.sv \in {"off", "done"} /\ p.ca \in {"off", "done"}

\* generateWithRetry is entered: attempt 1 is issued with the gathered context
beginGeneration(p) ==
  [p EXCEPT !.pc = "generate", !.attempt = 1, !.ctx = p.competitorInsights,
            !.lastResult = Null,
            !.given = [competitorInsights |-> p.competitorInsights,
                       searchVolume |-> p.searchVolume]]

\* generation starts as soon as the data gathering is over
afterGather(p) == IF gatherDone(p) THEN beginGeneration(p) ELSE p

\* Host names are sequences of pieces of text; "SEATPICK" and "COM" are the
\* pieces "seatpick" and "com" written in capitals.
lowerPiece(piece) ==
  CASE piece = "SEATPICK" -> "seatpick"
    [] piece = "COM" -> "com"
    [] OTHER -> piece

\* String.prototype.toLowerCase on a host name
hostToLowerCase(host) == Str([j \in 1..Len(host.text) |-> lowerPiece(host.text[j])])

\* String.prototype.includes
includes(string, searchString) ==
  \E i \in 0..(Len(string.text) - Len(searchString.text)) :
    SubSeq(string.text, i + 1, i + Len(searchString.text)) = searchString.text

\* 'seatpick.com'
brandDomain == Str(<<"seatpick", ".", "com">>)

seatpickTop3Exact(competitorDomains) ==
  \E j \in 1..Len(competitorDomains) : hostToLowerCase(competitorDomains[j]) = brandDomain

\* competitorDomains.some(domain => domain && domain.toLowerCase().includes('seatpick.com'))
seatpickTop3(competitorDomains) ==
  \E j \in 1..Len(competitorDomains) :
    /\ Truthy(competitorDomains[j])
    /\ includes(hostToLowerCase(competitorDomains[j]), brandDomain)

volumeOrZero(searchVolume) ==
  IF searchVolume # Null THEN Num(searchVolume.searchVolume) ELSE Num(0)

\* searchVolume?.searchVolume || null
volumeOrNull(searchVolume) ==
  IF searchVolume # Null /\ searchVolume.searchVolume # 0
    THEN Num(searchVolume.searchVolume) ELSE Null

successResultFromContext(pageName, p, descriptionResult) ==
  [pageName |-> pageName,
   success |-> TRUE,
   description |-> descriptionResult.description,
   wordCount |-> descriptionResult.wordCount,
   isValidLength |-> descriptionResult.isValidLength,
   searchVolume |-> volumeOrNull(p.searchVolume),
   usage |-> descriptionResult.usage,
   hasCompetitorInsights |-> Truthy(p.ctx),
   competitorDomains |-> p.competitorDomains,
   seatpickTop3 |-> seatpickTop3(p.competitorDomains)]

successResultOnlyIfValid(pageName, p, descriptionResult) ==
  [pageName |-> pageName,
   success |-> descriptionResult.isValidLength,
   description |-> descriptionResult.description,
   wordCount |-> descriptionResult.wordCount,
   isValidLength |-> descriptionResult.isValidLength,
   searchVolume |-> volumeOrNull(p.searchVolume),
   usage |-> descriptionResult.usage,
   hasCompetitorInsights |-> Truthy(p.competitorInsights),
   competitorDomains |-> p.competitorDomains,
   seatpickTop3 |-> seatpickTop3(p.competitorDomains)]

\* the object processSinglePage returns, spread with success: true by the caller
successResult(pageName, p, descriptionResult) ==
  [pageName |-> pageName,
   success |-> TRUE,
   description |-> descriptionResult.description,
   wordCount |-> descriptionResult.wordCount,
   isValidLength |-> descriptionResult.isValidLength,
   searchVolume |-> volumeOrNull(p.searchVolume),
   usage |-> descriptionResult.usage,
   hasCompetitorInsights |-> Truthy(p.competitorInsights),
   competitorDomains |-> p.competitorDomains,
   seatpickTop3 |-> seatpickTop3(p.competitorDomains)]

failureResultNoError(pageName, message) ==
  [pageName |-> pageName, success |-> FALSE, error |-> Null]

\* the catch branch of processPagesConcurrently's per-page wrapper
failureResult(pageName, message) ==
  [pageName |-> pageName, success |-> FALSE, error |-> Str(<<message>>)]

\* the per-page promise settles with `value`; the locals go out of scope
settled(p, value) ==
  [NotStarted EXCEPT !.pc = "settled", !.value = value, !.hist = p.hist,
                     !.given = p.given, !.fetched = p.fetched]

\* processSinglePage up to its first await on I/O: the requested sub-fetches are
\* issued; with none requested the first generation call is issued at once
startPage(req, svcs) ==
  afterGather(
    [NotStarted EXCEPT
       !.pc = "gather",
       !.sv = IF req.includeSearchVolume /\ svcs.dataForSEO THEN "inflight" ELSE "off",
       !.ca = IF req.includeCompetitorAnalysis /\ svcs.dataForSEO THEN "serp" ELSE "off",
       !.fetched.sv = IF req.includeSearchVolume /\ svcs.dataForSEO
                        THEN "pending" ELSE "off",
       !.fetched.ca = IF req.includeCompetitorAnalysis /\ svcs.dataForSEO
                        THEN "pending" ELSE "off"])

\* ------------------------------------------------------------ processPagesConcurrently

batchSizeOneMore == maxConcurrent + 1

\* const batchSize = SYSTEM_CONFIG.parallel.maxConcurrent
batchSize == maxConcurrent

Min(a, b) == IF a < b THEN a ELSE b

\* pages.slice(i, i + batchSize), as the 1-based positions of the slice
group(i, n) == (i + 1)..Min(i + batchSize, n)

\* batch.map(async pageName => ...): every pipeline of the group is called
startGroup(pg, req, svcs, i) ==
  [k \in DOMAIN pg |->
     IF k \in group(i, Len(req.pages)) THEN startPage(req, svcs) ELSE pg[k]]

\* Promise.race in place of Promise.all while a further group is waiting
groupSettledRace(pg, i, n) ==
  IF i + batchSize < n THEN \E k \in group(i, n) : pg[k].pc = "settled"
                       ELSE \A k \in group(i, n) : pg[k].pc = "settled"

\* await Promise.all(batchPromises) resolves: every page of the group has settled
groupSettled(pg, i, n) == \A k \in group(i, n) : pg[k].pc = "settled"

batchResultsReversed(pg, i, n) ==
  [j \in 1..(Min(i + batchSize, n) - i) |-> pg[Min(i + batchSize, n) + 1 - j].value]

\* the array Promise.all resolves with: the values in the order of the promises
batchResults(pg, i, n) ==
  [j \in 1..(Min(i + batchSize, n) - i) |-> pg[i + j].value]

RECURSIVE countSuccess(_)
\* results.filter(r => r.success).length
countSuccess(results) ==
  IF results = <<>> THEN 0
  ELSE (IF results[1].success THEN 1 ELSE 0) + countSuccess(Tail(results))

okResponseUnlessAllFailed(req, results, tracker) ==
  IF countSuccess(results) = 0
    THEN [status |-> 500]
    ELSE [status |-> 200, success |-> TRUE, results |-> results,
          summary |-> [totalPages |-> Len(req.pages),
                       successfulGenerations |-> countSuccess(results),
                       usage |-> getSummary(tracker)]]

\* res.json({ success: true, results, summary }) after the last group
okResponse(req, results, tracker) ==
  [status |-> 200, success |-> TRUE, results |-> results,
   summary |-> [totalPages |-> Len(req.pages),
                successfulGenerations |-> countSuccess(results),
                usage |-> getSummary(tracker)]]

\* What follows a turn in which pipelines of batch b moved to pg, with the
\* ledger of its service at `tracker`: when the whole group has settled its
\* results are pushed, and the next group is started or the response is sent.
progress(h, req, svcs, pg, tracker) ==
  LET n == Len(req.pages)
  IN IF ~groupSettled(pg, h.i, n)
       THEN [handler |-> h, page |-> pg]
     ELSE LET results == h.results \o batchResults(pg, h.i, n)
              i == h.i + batchSize
          IN IF i < n
               THEN [handler |-> [h EXCEPT !.i = i, !.results = results],
                     page |-> startGroup(pg, req, svcs, i)]
               ELSE [handler |-> [h EXCEPT !.pc = "responded", !.i = i,
                                           !.results = results,
                                           !.response = okResponse(req, results, tracker)],
                     page |-> pg]

\* ------------------------------------------------------------ provider stubs

GenError == [ok |-> FALSE, content |-> Null, prompt_tokens |-> 0, completion_tokens |-> 0]

GenNoContent == [ok |-> TRUE, content |-> Null, prompt_tokens |-> 10, completion_tokens |-> 2]

GenText(w, pt, ct) ==
  [ok |-> TRUE, content |-> Text(w, FALSE), prompt_tokens |-> pt, completion_tokens |-> ct]

\* a reply whose text begins and ends with whitespace
GenPadded(w, pt, ct) ==
  [ok |-> TRUE, content |-> Text(w, TRUE), prompt_tokens |-> pt, completion_tokens |-> ct]

\* the replies a provider stub of each behaviour gives to a generation call
repliesOf(behaviour) ==
  CASE behaviour = "throws" -> {GenError}
    [] behaviour = "valid" -> {GenText(lengthMin, 10, 20)}
    [] behaviour = "short" -> {GenText(lengthMin - 1, 10, 18)}
    [] behaviour = "long" -> {GenText(lengthMax + 1, 12, 30)}
    [] behaviour = "any" -> {GenError, GenNoContent, GenText(0, 10, 2),
                             GenText(lengthMin - 1, 10, 18), GenText(lengthMin, 10, 20),
                             GenPadded(lengthMax, 12, 28), GenText(lengthMax + 1, 12, 30)}

\* replies to a search-volume request: a failure, or the record built for the keyword
SvOk(v) == [ok |-> TRUE, searchVolume |-> v]

SvError == [ok |-> FALSE, searchVolume |-> 0]

\* an organic result's URL: whether it parses, and the host as it is written
Url(valid, host) == [valid |-> valid, host |-> host]

\* replies to a SERP request: a failure, or n organic results
SerpOk(n) ==
  [ok |-> TRUE,
   organicResults |-> [j \in 1..n |-> Url(TRUE, Str(<<"stubhub", ".", "com">>))]]

\* a SERP reply with the given URLs as its organic results
SerpOf(urls) == [ok |-> TRUE, organicResults |-> urls]

SerpError == [ok |-> FALSE, organicResults |-> <<>>]

\* replies to the fetch of a competitor page: a failure, or a body text of `length`
ContentOk(length) == [ok |-> TRUE, length |-> length]

ContentError == [ok |-> FALSE, length |-> 0]

\* replies to an insight call
InsightOk == [ok |-> TRUE, content |-> Str(<<"insights">>), prompt_tokens |-> 30,
              completion_tokens |-> 6]

InsightError == [ok |-> FALSE, content |-> Null, prompt_tokens |-> 0,
                 completion_tokens |-> 0]

\* an insight reply whose text is the empty string
InsightEmpty == [ok |-> TRUE, content |-> Str(<<>>), prompt_tokens |-> 30,
                 completion_tokens |-> 1]

\* model names, as the pieces of text they are made of
gpt4o == Str(<<"gpt-4o">>)

geminiFlash == Str(<<"gemini", "-2.0-flash">>)

Models == {gpt4o, geminiFlash}

\* model = 'gpt-4o' in the destructuring of req.body: the default stands in
\* for undefined only
modelOrDefault(model) == IF model = Undef THEN gpt4o ELSE model

\* String.prototype.startsWith
startsWith(string, piece) == string.text # <<>> /\ string.text[1] = piece

isGeminiModelAnywhere(model) ==
  Truthy(model) /\ \E j \in 1..Len(model.text) : model.text[j] = "gemini"

\* model && model.startsWith('gemini')
isGeminiModel(model) == Truthy(model) /\ startsWith(model, "gemini")

\* ------------------------------------------------------------ handler

\* history: what a ledger holds after one more call, written out independently
ledgerPlus(t, svc, r) ==
  [totalInputTokens |-> t.totalInputTokens + r.prompt_tokens,
   totalOutputTokens |-> t.totalOutputTokens + r.completion_tokens,
   totalCost |-> t.totalCost + toFixed6(r.prompt_tokens * Pricing(svc).input
                                        + r.completion_tokens * Pricing(svc).output),
   requests |-> t.requests + 1]

\* history: a ledger that was never reset and never written
NoCalls == [resets |-> 0, cleared |-> FALSE, since |-> <<>>, summary |-> Null]

\* history: the ledger's record after a reset; cleared tells that some reset
\* discarded calls
afterReset(c) ==
  [resets |-> c.resets + 1, cleared |-> c.cleared \/ c.since # <<>>, since |-> <<>>,
   summary |-> Null]

\* history: one more addRequest call, as the bag of the (inputTokens,
\* outputTokens, cost.totalCost) passed since the last reset
noted(since, call) ==
  IF call \in DOMAIN since
    THEN [since EXCEPT ![call] = @ + 1]
    ELSE [x \in DOMAIN since \cup {call} |-> IF x = call THEN 1 ELSE since[x]]

\* history: the call a provider reply r leads to
afterCall(c, svc, r) ==
  [c EXCEPT !.since =
     noted(@, [inputTokens |-> r.prompt_tokens, outputTokens |-> r.completion_tokens,
               totalCost |-> toFixed6(r.prompt_tokens * Pricing(svc).input
                                      + r.completion_tokens * Pricing(svc).output)]),
            !.summary = Null]

Waiting == [pc |-> "waiting", aiService |-> "none", i |-> 0, results |-> <<>>,
            response |-> Null]

rejected(status) == [Waiting EXCEPT !.pc = "responded", !.response = [status |-> status]]

\* initializeServices: the first call builds the services the credentials allow
initializeServices == IF servicesInitialized THEN services ELSE env

resetUsageTrackingSkipped(t) == t

\* aiService.resetUsageTracking()
resetUsageTracking(t) == reset

validPagesAlways(req) == TRUE

validPagesNoCap(req) == req.pagesKind = "array" /\ Len(req.pages) # 0

\* the two validation tests passed: pages is a non-empty array of at most 10
validPages(req) ==
  /\ req.pagesKind = "array"
  /\ Len(req.pages) # 0
  /\ ~(Len(req.pages) > maxPagesPerRequest)

\* export default async function handler(req, res), up to its first await on I/O
Handler(b) ==
  /\ request[b] # Null
  /\ handler[b].pc = "waiting"
  /\ LET req == request[b]
         svcs == initializeServices
         svc == IF isGeminiModel(modelOrDefault(req.model)) THEN "Gemini" ELSE "OpenAI"
         configured == IF svc = "Gemini" THEN svcs.gemini ELSE svcs.openAI
     IN /\ services' = svcs
        /\ servicesInitialized' = TRUE
        /\ IF req.method # "POST"
             THEN /\ handler' = [handler EXCEPT ![b] = rejected(405)]
                  /\ UNCHANGED <<usageTracker, page, calls>>
           ELSE IF ~configured
             THEN /\ handler' = [handler EXCEPT ![b] = rejected(503)]
                  /\ UNCHANGED <<usageTracker, page, calls>>
           ELSE IF ~validPages(req)
             THEN /\ handler' = [handler EXCEPT ![b] = rejected(400)]
                  /\ UNCHANGED <<usageTracker, page, calls>>
           ELSE /\ usageTracker' =
                     [usageTracker EXCEPT ![svc] = resetUsageTracking(@)]
                /\ calls' = [calls EXCEPT ![svc] = afterReset(@)]
                /\ handler' = [handler EXCEPT ![b] =
                                 [Waiting EXCEPT !.pc = "running", !.aiService = svc]]
                /\ page' = [page EXCEPT ![b] = startGroup(@, req, svcs, 0)]
  /\ UNCHANGED <<env, request, generator, own, lookup>>

\* ------------------------------------------------------------ replies

\* the reply to the search-volume request of page k of batch b arrives
SearchVolumeResponse(b, k, r) ==
  /\ handler[b].pc = "running"
  /\ page[b][k].pc = "gather"
  /\ page[b][k].sv = "inflight"
  /\ LET p == page[b][k]
         searchVolume == IF r.ok
                           THEN [keyword |-> request[b].pages[k],
                                 searchVolume |-> r.searchVolume]
                           ELSE Null
     IN page' = [page EXCEPT ![b][k] =
                   afterGather([p EXCEPT !.sv = "done", !.searchVolume = searchVolume,
                                         !.fetched.sv = IF r.ok THEN "ok" ELSE "failed",
                                         !.fetched.searchVolume =
                                            IF r.ok THEN [keyword |-> request[b].pages[k],
                                                          searchVolume |-> r.searchVolume]
                                                    ELSE Null])]
  /\ UNCHANGED <<env, servicesInitialized, services, usageTracker, request, handler,
                 generator, own, calls, lookup>>

\* serpResults.organicResults.slice(0, competitorAnalysis).map(r => r.url)
topUrls(organicResults) ==
  SubSeq(organicResults, 1, Min(competitorAnalysis, Len(organicResults)))

\* new URL(url).hostname: the parser lower-cases the host; a URL that does
\* not parse throws, which the caller turns into null
hostname(url) == IF url.valid THEN hostToLowerCase(url.host) ELSE Null

\* String.prototype.replace('www.', ''): the first occurrence is removed
replaceWww(host) ==
  LET t == host.text
  IN IF \E i \in 1..Len(t) : t[i] = "www."
       THEN LET i == CHOOSE i \in 1..Len(t) :
                       t[i] = "www." /\ \A j \in 1..(i - 1) : t[j] # "www."
            IN Str(SubSeq(t, 1, i - 1) \o SubSeq(t, i + 1, Len(t)))
       ELSE host

\* topUrls.map(url => hostname without 'www.', or null).filter(Boolean)
domainsOf(urls) ==
  LET mapped == [j \in 1..Len(urls) |->
                   IF hostname(urls[j]) = Null THEN Null
                                               ELSE replaceWww(hostname(urls[j]))]
  IN SelectSeq(mapped, Truthy)

\* getCompetitorContent up to its first await: urls.slice(0, limit), each fetch
\* waiting for its delay(index * 1000); url is the position in urls
attempts(urls, limit) ==
  [j \in 1..Min(limit, Len(urls)) |->
     [st |-> "timer", url |-> j, content |-> 0, contentLength |-> 0]]

\* getCompetitorContent(topUrls): limit takes its default
contentFetches(urls) == attempts(urls, contentLimit)

\* 'Unable to fetch content from this source.'.length
placeholderContent == 41

\* what one fetch resolves to: the body text cut by substring(0, 3000) with its
\* length, or the placeholder of the catch with contentLength 0
contentResult(entry, r) ==
  [entry EXCEPT !.st = "done",
                !.content = IF r.ok THEN Min(r.length, 3000) ELSE placeholderContent,
                !.contentLength = IF r.ok THEN Min(r.length, 3000) ELSE 0]

firstResolved(results) == \E j \in 1..Len(results) : results[j].st = "done"

\* Promise.all(contentPromises) resolves
allResolved(results) == \A j \in 1..Len(results) : results[j].st = "done"

validResultsFromThreshold(results) ==
  SelectSeq(results, LAMBDA c : c.contentLength >= contentThreshold)

\* results.filter(r => r.contentLength > 100)
validResults(results) == SelectSeq(results, LAMBDA c : c.contentLength > contentThreshold)

\* the reply to the SERP request of page k of batch b arrives: the rest of
\* getSERPResults and of the competitor chain up to its next await
SerpResponse(b, k, r) ==
  /\ handler[b].pc = "running"
  /\ page[b][k].pc = "gather"
  /\ page[b][k].ca = "serp"
  /\ LET p == page[b][k]
         urls == topUrls(r.organicResults)
     IN page' = [page EXCEPT ![b][k] =
          IF ~r.ok
            \* getSERPResults throws; the chain's catch leaves the insights null
            THEN afterGather([p EXCEPT !.ca = "done", !.fetched.ca = "serpFailed"])
          ELSE IF Len(urls) = 0
            THEN afterGather([p EXCEPT !.ca = "done", !.competitorDomains = domainsOf(urls),
                                       !.fetched.ca = "noUrls"])
          ELSE [p EXCEPT !.ca = "content", !.competitorDomains = domainsOf(urls),
                         !.urls = contentFetches(urls)]]
  /\ UNCHANGED <<env, servicesInitialized, services, usageTracker, request, handler,
                 generator, own, calls, lookup>>

\* the delay of fetch u of page k elapses and axios.get(url) is issued; the
\* timers of one getCompetitorContent call expire in index order
ContentTimer(b, k, u) ==
  /\ handler[b].pc = "running"
  /\ page[b][k].pc = "gather"
  /\ page[b][k].ca = "content"
  /\ page[b][k].urls[u].st = "timer"
  /\ \A j \in 1..(u - 1) : page[b][k].urls[j].st # "timer"
  /\ page' = [page EXCEPT ![b][k].urls[u].st = "inflight"]
  /\ UNCHANGED <<env, servicesInitialized, services, usageTracker, request, handler,
                 generator, own, calls, lookup>>

\* analyzeCompetitorContent up to its await: null at once for an empty list,
\* else the insight call is issued
analyzeCompetitorContentCall(p, competitorContent) ==
  IF Len(competitorContent) = 0
    THEN afterGather([p EXCEPT !.ca = "done", !.urls = <<>>, !.competitorInsights = Null,
                               !.fetched.ca = "noContent"])
    ELSE [p EXCEPT !.ca = "insight", !.urls = competitorContent]

\* fetch u of page k ends: the extracted text (at most 3000 characters) or, on
\* any failure, the placeholder; after the last one the valid results go to
\* analyzeCompetitorContent
ContentResponse(b, k, u, r) ==
  /\ handler[b].pc = "running"
  /\ page[b][k].pc = "gather"
  /\ page[b][k].ca = "content"
  /\ page[b][k].urls[u].st = "inflight"
  /\ LET p == page[b][k]
         results == [p.urls EXCEPT ![u] = contentResult(@, r)]
     IN page' = [page EXCEPT ![b][k] =
          IF allResolved(results)
            THEN analyzeCompetitorContentCall(p, validResults(results))
            ELSE [p EXCEPT !.urls = results]]
  /\ UNCHANGED <<env, servicesInitialized, services, usageTracker, request, handler,
                 generator, own, calls, lookup>>

recordInsightAlways(t, r, cost) ==
  addRequest(t, r.prompt_tokens, r.completion_tokens, cost)

\* analyzeCompetitorContent's usageTracker.addRequest: reached only when the
\* call returned and the reply could be read
recordInsight(t, r, cost) ==
  IF r.ok THEN addRequest(t, r.prompt_tokens, r.completion_tokens, cost) ELSE t

insightsOrMessage(r) ==
  IF r.ok THEN r.content ELSE Str(<<"Failed to analyze competitor content">>)

\* what analyzeCompetitorContent returns once the insight call has ended:
\* the reply's text, or null from its catch
insightsOrNull(r) == IF r.ok THEN r.content ELSE Null

\* the reply to the insight call of page k arrives: the rest of
\* analyzeCompetitorContent, which records the call and returns the insights,
\* or returns null when anything was thrown
InsightResponse(b, k, r) ==
  /\ handler[b].pc = "running"
  /\ page[b][k].pc = "gather"
  /\ page[b][k].ca = "insight"
  /\ LET svc == handler[b].aiService
         p == page[b][k]
         cost == calculateCost(svc, r.prompt_tokens, r.completion_tokens)
     IN /\ usageTracker' = [usageTracker EXCEPT ![svc] = recordInsight(@, r, cost)]
        /\ own' = [own EXCEPT ![b] = IF r.ok THEN ledgerPlus(@, svc, r) ELSE @]
        /\ calls' = [calls EXCEPT ![svc] = IF r.ok THEN afterCall(@, svc, r) ELSE @]
        /\ page' = [page EXCEPT ![b][k] =
                      afterGather([p EXCEPT !.ca = "done", !.urls = <<>>,
                                            !.competitorInsights = insightsOrNull(r),
                                            !.fetched.ca =
                                               IF r.ok THEN "ok" ELSE "insightFailed",
                                            !.fetched.insights =
                                               IF r.ok THEN r.content ELSE Null])]
  /\ UNCHANGED <<env, servicesInitialized, services, request, handler, generator, lookup>>

\* the reply to the generation call of page k of batch b arrives: the rest of
\* generateDescription, the turn of generateWithRetry's loop, and, when the page
\* settles, what processPagesConcurrently and the handler do next
GenResponse(b, k, r) ==
  /\ handler[b].pc = "running"
  /\ page[b][k].pc = "generate"
  /\ LET svc == handler[b].aiService
         p == page[b][k]
         pageName == request[b].pages[k]
     IN \E out \in {generateDescription(svc, usageTracker[svc], pageName, r)} :
        \E step \in {generateWithRetryStep(p, out)} :
          LET ph == [p EXCEPT !.hist = Append(@, [threw |-> out.threw, reply |-> r,
                                                  ctx |-> p.ctx])]
              p2 == CASE step.kind = "retry" ->
                           [ph EXCEPT !.attempt = @ + 1, !.ctx = step.ctx,
                                      !.lastResult = step.lastResult]
                      [] step.kind = "throw" ->
                           settled(ph, failureResult(pageName, "generation failed"))
                      [] step.kind = "return" ->
                           IF step.result = Null
                             \* descriptionResult.description on null throws a TypeError
                             THEN settled(ph, failureResult(pageName, "TypeError"))
                             ELSE settled(ph, successResult(pageName, p, step.result))
          IN \E next \in {progress(handler[b], request[b], services,
                                   [page[b] EXCEPT ![k] = p2], out.tracker)} :
               /\ usageTracker' = [usageTracker EXCEPT ![svc] = out.tracker]
               /\ handler' = [handler EXCEPT ![b] = next.handler]
               /\ page' = [page EXCEPT ![b] = next.page]
               /\ own' = [own EXCEPT ![b] =
                            IF out.tracker.requests > usageTracker[svc].requests
                              THEN ledgerPlus(@, svc, r) ELSE @]
               /\ calls' = [calls EXCEPT ![svc] =
                              IF out.tracker.requests > usageTracker[svc].requests
                                THEN afterCall(@, svc, r) ELSE @]
  /\ UNCHANGED <<env, servicesInitialized, services, request, generator, lookup>>

\* ------------------------------------------------------------ specifications

AllConfigured == [openAI |-> TRUE, gemini |-> TRUE, dataForSEO |-> TRUE]

NoneBuilt == [openAI |-> FALSE, gemini |-> FALSE, dataForSEO |-> FALSE]

PostRequest(n, sv, ca, model) ==
  [method |-> "POST", pagesKind |-> "array", pages |-> SubSeq(PageNames, 1, n),
   includeCompetitorAnalysis |-> ca, includeSearchVolume |-> sv, model |-> model]

pagesOf(req) == IF req = Null THEN {} ELSE 1..Len(req.pages)

\* no DataForSEOService method has been called on its own
Idle == [pc |-> "idle"]

\* the state right after the module is loaded, with the requests to come
InitWith(e, reqs, gens) ==
  /\ env = e
  /\ servicesInitialized = FALSE
  /\ services = NoneBuilt
  /\ usageTracker = [s \in Services |-> reset]
  /\ request = reqs
  /\ handler = [b \in Batches |-> Waiting]
  /\ page = [b \in Batches |-> [k \in pagesOf(reqs[b]) |-> NotStarted]]
  /\ generator = gens
  /\ own = [b \in Batches |-> reset]
  /\ calls = [s \in Services |-> NoCalls]
  /\ lookup = Idle

\* one batch of 1..MaxPages pages, each page's provider stub failing, complying
\* or violating the length bound on every call; search volume on or off
Init ==
  \E n \in 1..MaxPages, sv \in BOOLEAN, model \in Models :
    \E g \in [1..n -> {"throws", "valid", "short"}] :
      InitWith(AllConfigured,
               [b \in Batches |-> IF b = 1 THEN PostRequest(n, sv, FALSE, model) ELSE Null],
               [b \in Batches |-> IF b = 1 THEN g ELSE <<>>])

Next ==
  \/ \E b \in Batches : Handler(b)
  \/ \E b \in Batches : \E k \in DOMAIN page[b] : \E r \in {SvError, SvOk(50000)} :
       SearchVolumeResponse(b, k, r)
  \/ \E b \in Batches : \E k \in DOMAIN page[b] : \E r \in repliesOf(generator[b][k]) :
       GenResponse(b, k, r)

Spec == Init /\ [][Next]_vars

\* ------------------------------------------------------------ batch claims

responded(b) == handler[b].pc = "responded" /\ handler[b].response.status = 200

inFlight(b) == {k \in DOMAIN page[b] : page[b][k].pc \in {"gather", "generate"}}

\* the concurrency group a page position belongs to, counted from 0
groupIndex(k) == (k - 1) \div maxConcurrent

\* C1: the results pushed so far are one per page of the groups done, in input
\* order, and the response carries exactly one result per requested page, the
\* result at position k being the one of pages[k].
C1_ResultsInInputOrder ==
  \A b \in Batches :
    handler[b].pc \in {"running", "responded"} =>
      LET results == handler[b].results
          pages == request[b].pages
      IN /\ Len(results) <= Len(pages)
         /\ \A k \in 1..Len(results) : results[k].pageName = pages[k]
         /\ responded(b) =>
              /\ handler[b].response.results = results
              /\ Len(results) = Len(pages)

\* a batch of two groups has been answered, with pages that failed and pages
\* that succeeded in it
C1_Witness ==
  \E b \in Batches :
    /\ responded(b)
    /\ Len(request[b].pages) > maxConcurrent
    /\ \E j, k \in 1..Len(handler[b].response.results) :
         /\ handler[b].response.results[j].success
         /\ ~handler[b].response.results[k].success

\* C2: at most maxConcurrent page pipelines of a batch have started and not settled.
C2_PipelinesBounded ==
  \A b \in Batches : Cardinality(inFlight(b)) <= maxConcurrent

\* a batch longer than one group has maxConcurrent pipelines in flight
C2_Witness ==
  \E b \in Batches :
    /\ handler[b].pc = "running"
    /\ Len(request[b].pages) > maxConcurrent
    /\ Cardinality(inFlight(b)) = maxConcurrent

\* C4: a page whose generator throws on every attempt ends as success:false with
\* an error, every page whose generator never throws ends as success:true, and
\* the batch still answers with one result per page.
C4_FailureIsolated ==
  \A b \in Batches :
    responded(b) =>
      LET results == handler[b].response.results
      IN /\ Len(results) = Len(request[b].pages)
         /\ \A k \in 1..Len(results) :
              /\ results[k].pageName = request[b].pages[k]
              /\ Len(page[b][k].hist) >= 1
              /\ IF generator[b][k] = "throws"
                   THEN ~results[k].success /\ Truthy(results[k].error)
                   ELSE results[k].success

\* a batch of two groups has been answered in which exactly one page, in the
\* first group, had a generator that throws
C4_Witness ==
  \E b \in Batches :
    /\ responded(b)
    /\ Len(request[b].pages) > maxConcurrent
    /\ generator[b][2] = "throws"
    /\ \A k \in DOMAIN generator[b] : k # 2 => generator[b][k] = "valid"
    /\ ~handler[b].response.results[2].success

\* C9: no page of a later group has started while a page of an earlier group
\* has not settled.
C9_GroupsInSequence ==
  \A b \in Batches : \A j, k \in DOMAIN page[b] :
    (groupIndex(j) < groupIndex(k) /\ page[b][k].pc # "notStarted")
      => page[b][j].pc = "settled"

\* a page of the second group is in flight
C9_Witness ==
  \E b \in Batches : \E k \in DOMAIN page[b] :
    groupIndex(k) = 1 /\ page[b][k].pc \in {"gather", "generate"}

\* ------------------------------------------------------------ retry claims

\* one batch of 1..MaxRetryPages pages whose provider may give any reply to
\* each generation call
InitRetry ==
  \E n \in 1..MaxRetryPages, model \in Models :
    InitWith(AllConfigured,
             [b \in Batches |-> IF b = 1 THEN PostRequest(n, FALSE, FALSE, model) ELSE Null],
             [b \in Batches |-> IF b = 1 THEN [k \in 1..n |-> "any"] ELSE <<>>])

NextRetry ==
  \/ \E b \in Batches : Handler(b)
  \/ \E b \in Batches : \E k \in DOMAIN page[b] : \E r \in repliesOf(generator[b][k]) :
       GenResponse(b, k, r)

SpecRetry == InitRetry /\ [][NextRetry]_vars

\* attempt e of a page returned a text
returned(e) == ~e.threw

\* attempt e returned a text whose word count is outside [350, 500]
violating(e) ==
  returned(e) /\ (e.reply.content.words < lengthMin \/ e.reply.content.words > lengthMax)

\* attempt e returned a text whose word count is within [350, 500]
complying(e) ==
  returned(e) /\ e.reply.content.words >= lengthMin /\ e.reply.content.words <= lengthMax

\* the page's result is the result of attempt e
carries(value, e) ==
  /\ value.success
  /\ value.description = e.reply.content
  /\ value.wordCount = e.reply.content.words
  /\ value.usage.promptTokens = e.reply.prompt_tokens
  /\ value.usage.completionTokens = e.reply.completion_tokens

\* C5: a page all of whose attempts returned violating text is not settled
\* before attempt maxRetries, makes no further attempt, and then carries the
\* result of that last attempt, with isValidLength false, as a success.
C5_ExhaustedReturnsLast ==
  \A b \in Batches : \A k \in DOMAIN page[b] :
    LET p == page[b][k]
    IN (\A j \in 1..Len(p.hist) : violating(p.hist[j])) =>
         /\ Len(p.hist) <= maxRetries
         /\ Len(p.hist) < maxRetries => p.pc # "settled"
         /\ Len(p.hist) = maxRetries =>
              /\ p.pc = "settled"
              /\ carries(p.value, p.hist[maxRetries])
              /\ ~p.value.isValidLength

\* a page has settled after maxRetries violating attempts, a too short and a
\* too long one among them
C5_Witness ==
  \E b \in Batches : \E k \in DOMAIN page[b] :
    LET p == page[b][k]
    IN /\ p.pc = "settled"
       /\ Len(p.hist) = maxRetries
       /\ \A j \in 1..maxRetries : violating(p.hist[j])
       /\ p.hist[1].reply.content.words > lengthMax
       /\ p.hist[maxRetries].reply.content.words < lengthMin

\* C6: an attempt before the last that throws is followed by a further attempt;
\* when attempt maxRetries throws the page settles as success:false with an error.
C6_LastErrorPropagates ==
  \A b \in Batches : \A k \in DOMAIN page[b] :
    LET p == page[b][k]
    IN \A j \in 1..Len(p.hist) :
         p.hist[j].threw =>
           IF j < maxRetries
             THEN Len(p.hist) > j \/ (p.pc = "generate" /\ p.attempt = j + 1)
             ELSE /\ p.pc = "settled"
                  /\ ~p.value.success
                  /\ Truthy(p.value.error)

\* a page failed on attempt maxRetries after an earlier attempt had thrown and
\* another had returned
C6_Witness ==
  \E b \in Batches : \E k \in DOMAIN page[b] :
    LET p == page[b][k]
    IN /\ p.pc = "settled"
       /\ Len(p.hist) = maxRetries
       /\ p.hist[1].threw
       /\ ~p.hist[2].threw
       /\ p.hist[maxRetries].threw
       /\ ~p.value.success

\* C7: an attempt that returns a text within the bound is the page's last
\* attempt: the page settles in that turn with that attempt's result.
C7_ReturnsOnFirstValid ==
  \A b \in Batches : \A k \in DOMAIN page[b] :
    LET p == page[b][k]
    IN \A j \in 1..Len(p.hist) :
         complying(p.hist[j]) =>
           /\ j = Len(p.hist)
           /\ p.pc = "settled"
           /\ carries(p.value, p.hist[j])
           /\ p.value.isValidLength

\* a page settled on a complying second attempt, at either end of the bound
C7_Witness ==
  \E b \in Batches : \E k \in DOMAIN page[b] :
    LET p == page[b][k]
    IN /\ p.pc = "settled"
       /\ Len(p.hist) = 2
       /\ complying(p.hist[2])
       /\ p.hist[2].reply.content.words \in {lengthMin, lengthMax}

RECURSIVE sumReturned(_, _, _)
\* over the attempts of hist that returned a text: their number (what = "n"),
\* prompt tokens ("in"), completion tokens ("out") or cost ("cost")
sumReturned(hist, svc, what) ==
  IF hist = <<>> THEN 0
  ELSE sumReturned(Tail(hist), svc, what)
       + (IF ~returned(Head(hist)) THEN 0
          ELSE CASE what = "n" -> 1
                 [] what = "in" -> Head(hist).reply.prompt_tokens
                 [] what = "out" -> Head(hist).reply.completion_tokens
                 [] what = "cost" ->
                      toFixed6(Head(hist).reply.prompt_tokens * Pricing(svc).input
                               + Head(hist).reply.completion_tokens * Pricing(svc).output))

RECURSIVE sumPages(_, _, _, _)
sumPages(pg, k, svc, what) ==
  IF k = 0 THEN 0
  ELSE sumPages(pg, k - 1, svc, what) + sumReturned(pg[k].hist, svc, what)

\* C8: a turn in which an attempt of a page returns a text, complying or not,
\* adds exactly that call's tokens and cost as one record to the ledger of the
\* batch's service; and the summary a batch is answered with is not below the
\* number, tokens and cost of all the attempts of its pages that returned.
C8_EveryAttemptRecorded ==
  [][\A b \in Batches : \A k \in DOMAIN page[b] :
       /\ (Len(page'[b][k].hist) = Len(page[b][k].hist) + 1
           /\ returned(page'[b][k].hist[Len(page'[b][k].hist)]))
          => LET svc == handler[b].aiService
                 r == page'[b][k].hist[Len(page'[b][k].hist)].reply
             IN usageTracker'[svc] = ledgerPlus(usageTracker[svc], svc, r)
       /\ (handler'[b].pc = "responded" /\ handler'[b].response.status = 200)
          => LET svc == handler'[b].aiService
                 n == Len(request[b].pages)
                 usage == handler'[b].response.summary.usage
             IN /\ usage.requestCount >= sumPages(page'[b], n, svc, "n")
                /\ usage.totalInputTokens >= sumPages(page'[b], n, svc, "in")
                /\ usage.totalOutputTokens >= sumPages(page'[b], n, svc, "out")
                /\ usage.totalCost >= toFixed4(sumPages(page'[b], n, svc, "cost"))
    ]_vars

\* a batch has been answered after a page's violating attempts were retried,
\* and its summary counts every one of them
C8_Witness ==
  \E b \in Batches :
    /\ responded(b)
    /\ \E k \in DOMAIN page[b] :
         /\ Len(page[b][k].hist) = maxRetries
         /\ \A j \in 1..maxRetries : violating(page[b][k].hist[j])
    /\ handler[b].response.summary.usage.requestCount >= maxRetries

\* ------------------------------------------------------------ overlapping batches

\* two requests of 1..MaxOverlapPages pages each, answered by the same process:
\* the second may arrive at any moment of the first
InitOverlap ==
  \E n1, n2 \in 1..MaxOverlapPages, m1, m2 \in Models :
    \E g1 \in [1..n1 -> {"valid", "short"}], g2 \in [1..n2 -> {"valid", "short"}] :
      InitWith(AllConfigured,
               [b \in Batches |-> IF b = 1 THEN PostRequest(n1, FALSE, FALSE, m1)
                                           ELSE PostRequest(n2, FALSE, FALSE, m2)],
               [b \in Batches |-> IF b = 1 THEN g1 ELSE g2])

NextOverlap ==
  \/ \E b \in Batches : Handler(b)
  \/ \E b \in Batches : \E k \in DOMAIN page[b] : \E r \in repliesOf(generator[b][k]) :
       GenResponse(b, k, r)

SpecOverlap == InitOverlap /\ [][NextOverlap]_vars

\* C3: the usage summary a batch is answered with is the summary of the calls
\* recorded for that batch alone, whatever another batch on the same provider
\* resets or records meanwhile.
C3_LedgerPerBatch ==
  \A b \in Batches :
    responded(b) => handler[b].response.summary.usage = getSummary(own[b])

\* ------------------------------------------------------------ outbound calls

\* longest page list of a request when both sub-fetches are requested
MaxFanoutPages == 4

\* one batch of 1..MaxFanoutPages pages with search volume and competitor
\* analysis requested, every remote call answering, a SERP request with no
\* organic result or with MaxOrganic of them
InitFanout ==
  \E n \in 1..MaxFanoutPages, model \in Models :
    InitWith(AllConfigured,
             [b \in Batches |-> IF b = 1 THEN PostRequest(n, TRUE, TRUE, model) ELSE Null],
             [b \in Batches |-> IF b = 1 THEN [k \in 1..n |-> "valid"] ELSE <<>>])

NextFanout ==
  \/ \E b \in Batches : Handler(b)
  \/ \E b \in Batches : \E k \in DOMAIN page[b] :
       SearchVolumeResponse(b, k, SvOk(50000))
  \/ \E b \in Batches : \E k \in DOMAIN page[b] : \E n \in {0, MaxOrganic} :
       SerpResponse(b, k, SerpOk(n))
  \/ \E b \in Batches : \E k \in DOMAIN page[b] : \E u \in DOMAIN page[b][k].urls :
       ContentTimer(b, k, u)
  \/ \E b \in Batches : \E k \in DOMAIN page[b] : \E u \in DOMAIN page[b][k].urls :
       ContentResponse(b, k, u, ContentOk(3000))
  \/ \E b \in Batches : \E k \in DOMAIN page[b] : InsightResponse(b, k, InsightOk)
  \/ \E b \in Batches : \E k \in DOMAIN page[b] : \E r \in repliesOf(generator[b][k]) :
       GenResponse(b, k, r)

SpecFanout == InitFanout /\ [][NextFanout]_vars

\* the outbound calls of page p that have been issued and not answered: the
\* search-volume lookup, the SERP lookup, the competitor page fetches, the
\* insight call and the generation call
callsInFlight(p) ==
  (IF p.sv = "inflight" THEN 1 ELSE 0)
  + (IF p.ca = "serp" THEN 1 ELSE 0)
  + (IF p.ca = "content"
       THEN Cardinality({u \in DOMAIN p.urls : p.urls[u].st = "inflight"}) ELSE 0)
  + (IF p.ca = "insight" THEN 1 ELSE 0)
  + (IF p.pc = "generate" THEN 1 ELSE 0)

RECURSIVE outboundCalls(_, _)
\* the outbound calls in flight of the first k pages of a batch
outboundCalls(pg, k) ==
  IF k = 0 THEN 0 ELSE outboundCalls(pg, k - 1) + callsInFlight(pg[k])

\* C10 as stated: at most maxConcurrent outbound calls of a batch are in flight.
C10_CallsWithinMaxConcurrent ==
  \A b \in Batches : outboundCalls(page[b], Len(page[b])) <= maxConcurrent

\* C10 amended: each page pipeline has at most 1 + contentLimit outbound calls
\* in flight, so a batch has at most maxConcurrent * (1 + contentLimit).
C10_CallsWithinFanout ==
  \A b \in Batches :
    /\ \A k \in DOMAIN page[b] : callsInFlight(page[b][k]) <= 1 + contentLimit
    /\ outboundCalls(page[b], Len(page[b])) <= maxConcurrent * (1 + contentLimit)

\* every page of a full group has its search-volume lookup and contentLimit
\* competitor page fetches in flight
C10_Witness ==
  \E b \in Batches :
    outboundCalls(page[b], Len(page[b])) = maxConcurrent * (1 + contentLimit)

\* ------------------------------------------------------------ the ledger alone

\* most addRequest calls on a ledger between two resets, and most resets of a
\* ledger, when the ledger is driven directly
MaxCalls == 3
MaxResets == 2

\* the (inputTokens, outputTokens) of the calls made on the ledger
LedgerTokens == {<<0, 0>>, <<7, 4>>, <<10, 4>>, <<250, 40>>}

\* the service whose ledger is driven: the ledgers are instances of one class
LedgerServices == {"OpenAI"}

\* usageTracker.addRequest(inputTokens, outputTokens, cost) on the ledger of s
LedgerAddRequest(s, inputTokens, outputTokens, cost) ==
  /\ usageTracker[s].requests < MaxCalls
  /\ usageTracker' = [usageTracker EXCEPT ![s] =
                        addRequest(@, inputTokens, outputTokens, cost)]
  /\ calls' = [calls EXCEPT ![s].since =
                 noted(@, [inputTokens |-> inputTokens, outputTokens |-> outputTokens,
                           totalCost |-> cost.totalCost]),
                            ![s].summary = Null]
  /\ UNCHANGED <<env, servicesInitialized, services, request, handler, page,
                 generator, own, lookup>>

\* usageTracker.reset() on the ledger of s
LedgerReset(s) ==
  /\ calls[s].resets < MaxResets
  /\ usageTracker' = [usageTracker EXCEPT ![s] = reset]
  /\ calls' = [calls EXCEPT ![s] = afterReset(@)]
  /\ UNCHANGED <<env, servicesInitialized, services, request, handler, page,
                 generator, own, lookup>>

\* usageTracker.getSummary() on the ledger of s: nothing is assigned
LedgerGetSummary(s) ==
  /\ calls' = [calls EXCEPT ![s].summary = getSummary(usageTracker[s])]
  /\ UNCHANGED <<env, servicesInitialized, services, usageTracker, request, handler,
                 page, generator, own, lookup>>

\* the services are built and no request is being served
InitLedger ==
  InitWith(AllConfigured, [b \in Batches |-> Null], [b \in Batches |-> <<>>])

NextLedger ==
  \/ \E s \in LedgerServices : \E tk \in LedgerTokens : \E priced \in Services :
       LedgerAddRequest(s, tk[1], tk[2], calculateCost(priced, tk[1], tk[2]))
  \/ \E s \in LedgerServices : LedgerReset(s)
  \/ \E s \in LedgerServices : LedgerGetSummary(s)

SpecLedger == InitLedger /\ [][NextLedger]_vars

RECURSIVE sumCalls(_, _)
\* over the bag of calls `since`: their number (what = "n"), or the sum of their
\* inputTokens ("in"), outputTokens ("out") or cost.totalCost ("cost")
sumCalls(since, what) ==
  IF DOMAIN since = {} THEN 0
  ELSE LET c == CHOOSE c \in DOMAIN since : TRUE
           rest == [x \in DOMAIN since \ {c} |-> since[x]]
           each == CASE what = "n" -> 1
                     [] what = "in" -> c.inputTokens
                     [] what = "out" -> c.outputTokens
                     [] what = "cost" -> c.totalCost
       IN since[c] * each + sumCalls(rest, what)

\* C11 as stated: the summary of a ledger reports the sums of the input tokens,
\* output tokens and costs of the calls since its last reset, and their number.
C11_SummaryIsSum ==
  \A s \in Services :
    LET summary == getSummary(usageTracker[s])
        since == calls[s].since
    IN /\ summary.totalInputTokens = sumCalls(since, "in")
       /\ summary.totalOutputTokens = sumCalls(since, "out")
       /\ summary.totalCost = sumCalls(since, "cost")
       /\ summary.requestCount = sumCalls(since, "n")

\* C11 amended: the ledger holds the sums of the input tokens, output tokens
\* and costs of the calls since its last reset and their number; the summary
\* reports the tokens and the number as they are and the cost rounded to four
\* decimals; with no call since the last reset all of them are zero.
C11_SummaryIsRoundedSum ==
  \A s \in Services :
    LET summary == getSummary(usageTracker[s])
        since == calls[s].since
    IN /\ summary.totalInputTokens = sumCalls(since, "in")
       /\ summary.totalOutputTokens = sumCalls(since, "out")
       /\ usageTracker[s].totalCost = sumCalls(since, "cost")
       /\ summary.totalCost = toFixed4(sumCalls(since, "cost"))
       /\ summary.requestCount = sumCalls(since, "n")
       /\ since = <<>> =>
            /\ summary.totalInputTokens = 0
            /\ summary.totalOutputTokens = 0
            /\ summary.totalCost = 0
            /\ summary.requestCount = 0

\* after a reset that discarded calls, a ledger has taken MaxCalls calls, two of
\* them alike, whose costs do not add up to a multiple of 0.0001 $
C11_Witness ==
  \E s \in Services :
    /\ calls[s].cleared
    /\ usageTracker[s].requests = MaxCalls
    /\ \E c \in DOMAIN calls[s].since : calls[s].since[c] = 2
    /\ usageTracker[s].totalCost % 1000 # 0
    /\ getSummary(usageTracker[s]).totalCost > 0

\* ------------------------------------------------------------ successive batches

\* longest page list of a request when two batches follow one another
MaxSuccessivePages == 4

\* two requests with competitor analysis served by the same process, the
\* second arriving after the first was answered; an insight call may fail
InitSuccessive ==
  \E n1, n2 \in 1..MaxSuccessivePages, m1, m2 \in Models :
    InitWith(AllConfigured,
             [b \in Batches |-> IF b = 1 THEN PostRequest(n1, FALSE, TRUE, m1)
                                         ELSE PostRequest(n2, FALSE, TRUE, m2)],
             [b \in Batches |-> IF b = 1 THEN [k \in 1..n1 |-> "valid"]
                                         ELSE [k \in 1..n2 |-> "valid"]])

NextSuccessive ==
  \/ \E b \in Batches : (b = 1 \/ handler[1].pc = "responded") /\ Handler(b)
  \/ \E b \in Batches : \E k \in DOMAIN page[b] : SerpResponse(b, k, SerpOk(1))
  \/ \E b \in Batches : \E k \in DOMAIN page[b] : \E u \in DOMAIN page[b][k].urls :
       ContentTimer(b, k, u)
  \/ \E b \in Batches : \E k \in DOMAIN page[b] : \E u \in DOMAIN page[b][k].urls :
       ContentResponse(b, k, u, ContentOk(3000))
  \/ \E b \in Batches : \E k \in DOMAIN page[b] : \E r \in {InsightError, InsightOk} :
       InsightResponse(b, k, r)
  \/ \E b \in Batches : \E k \in DOMAIN page[b] : \E r \in repliesOf(generator[b][k]) :
       GenResponse(b, k, r)

SpecSuccessive == InitSuccessive /\ [][NextSuccessive]_vars

\* the batches accepted so far whose provider is s
acceptedOn(s) ==
  {b \in Batches : handler[b].pc \in {"running", "responded"} /\ handler[b].aiService = s}

RECURSIVE insightCalls(_, _)
\* the insight calls recorded for the first k pages of an answered batch: the
\* pages whose result tells of insights
insightCalls(results, k) ==
  IF k = 0 THEN 0
  ELSE insightCalls(results, k - 1)
       + (IF results[k].success /\ results[k].hasCompetitorInsights THEN 1 ELSE 0)

\* C12: a ledger has been reset once per batch accepted on its provider; while
\* a batch is running the ledger holds exactly the calls made for that batch,
\* so the reset came before the first of them; and the summary a batch is
\* answered with was read when every page of every group had settled: it
\* counts every generation and insight call of the batch.
C12_ResetOnceSummaryLast ==
  /\ \A s \in Services : calls[s].resets = Cardinality(acceptedOn(s))
  /\ \A b \in Batches :
       /\ handler[b].pc = "running" =>
            /\ usageTracker[handler[b].aiService] = own[b]
            /\ handler[b].response = Null
       /\ responded(b) =>
            LET n == Len(request[b].pages)
                usage == handler[b].response.summary.usage
            IN /\ \A k \in 1..n : page[b][k].pc = "settled"
               /\ usage = getSummary(own[b])
               /\ usage.requestCount =
                    sumPages(page[b], n, handler[b].aiService, "n")
                    + insightCalls(handler[b].response.results, n)

\* the second of two batches of two groups on the same provider is running and
\* has recorded an insight call and a generation call, after the first was
\* answered with a summary of more calls than that
C12_Witness ==
  /\ responded(1)
  /\ handler[2].pc = "running"
  /\ handler[2].aiService = handler[1].aiService
  /\ Len(request[1].pages) > maxConcurrent
  /\ Len(request[2].pages) > maxConcurrent
  /\ own[2].requests = 2
  /\ \E k \in DOMAIN page[2] : page[2][k].pc = "generate" /\ Truthy(page[2][k].ctx)
  /\ handler[1].response.summary.usage.requestCount > 2

\* ------------------------------------------------------------ ledger monotonicity

\* C13: in a step that does not reset a ledger, its input tokens, output
\* tokens and cost, and the request count and rounded cost of its summary, do
\* not decrease; and when any of them changes the request count has grown by
\* one: the change is one addRequest.
C13_TotalsNeverDecrease ==
  [][\A s \in Services :
       calls'[s].resets = calls[s].resets =>
         LET t == usageTracker[s]
             u == usageTracker'[s]
         IN /\ u.totalInputTokens >= t.totalInputTokens
            /\ u.totalOutputTokens >= t.totalOutputTokens
            /\ u.totalCost >= t.totalCost
            /\ getSummary(u).totalCost >= getSummary(t).totalCost
            /\ getSummary(u).requestCount >= getSummary(t).requestCount
            /\ u # t => getSummary(u).requestCount = getSummary(t).requestCount + 1
    ]_vars

\* a ledger that was reset after calls has since taken a large call and a
\* small one
C13_Witness ==
  \E s \in Services :
    /\ calls[s].cleared
    /\ DOMAIN calls[s].since =
         {[inputTokens |-> 250, outputTokens |-> 40,
           totalCost |-> calculateCost("Gemini", 250, 40).totalCost],
          [inputTokens |-> 10, outputTokens |-> 4,
           totalCost |-> calculateCost("OpenAI", 10, 4).totalCost]}
    /\ usageTracker[s].totalInputTokens = 260

\* ------------------------------------------------------------ getSearchVolume

\* most keywords of one getSearchVolume call, and most items of a result list
MaxKeywords == 2
MaxItems == 2

\* a JavaScript array
Arr(items) == [tag |-> "array", items |-> items]

\* a JavaScript object with the fields of keyword_info
Obj(search_volume, competition, cpc, monthly_searches) ==
  [tag |-> "object", search_volume |-> search_volume, competition |-> competition,
   cpc |-> cpc, monthly_searches |-> monthly_searches]

\* a keyword string: its letters lower-cased and trimmed, whether it has
\* upper-case letters, and whether it has leading or trailing whitespace
Keyword(base, cased, padded) ==
  [tag |-> "keyword", base |-> base, cased |-> cased, padded |-> padded]

\* String.prototype.toLowerCase
toLowerCase(k) == [k EXCEPT !.cased = FALSE]

\* String.prototype.trim
trim(k) == [k EXCEPT !.padded = FALSE]

\* JavaScript truthiness
jsTruthy(x) ==
  CASE x.tag \in {"null", "undefined"} -> FALSE
    [] x.tag = "num" -> x.v # 0
    [] x.tag = "str" -> x.text # <<>>
    [] OTHER -> TRUE

\* a || b
jsOr(a, b) == IF jsTruthy(a) THEN a ELSE b

\* info?.field
chained(info, field) ==
  IF info.tag \in {"null", "undefined"} THEN Undef
  ELSE CASE field = "search_volume" -> info.search_volume
         [] field = "competition" -> info.competition
         [] field = "cpc" -> info.cpc
         [] field = "monthly_searches" -> info.monthly_searches

\* keywords.map(k => k.toLowerCase().trim())
normalize(keywords) == [j \in 1..Len(keywords) |-> trim(toLowerCase(keywords[j]))]

\* the record of a keyword the provider has no data for
zeroRecord(keyword) ==
  [keyword |-> keyword, searchVolume |-> Num(0), competition |-> Str(<<"Unknown">>),
   cpc |-> Num(0), monthlySearches |-> Arr(<<>>)]

\* if (item.keyword_info || typeof item.search_volume !== 'undefined')
hasVolume(item) == jsTruthy(item.keyword_info) \/ item.search_volume # Undef

\* typeof top !== 'undefined' ? top : (nested || fallback)
topElseNested(top, nested, fallback) ==
  IF top # Undef THEN top ELSE jsOr(nested, fallback)

\* the value volumeMap.set stores for an item
volumeEntry(item) ==
  [keyword |-> item.keyword,
   searchVolume |-> topElseNested(item.search_volume,
                                  chained(item.keyword_info, "search_volume"), Num(0)),
   competition |-> topElseNested(item.competition,
                                 chained(item.keyword_info, "competition"),
                                 Str(<<"Unknown">>)),
   cpc |-> topElseNested(item.cpc, chained(item.keyword_info, "cpc"), Num(0)),
   monthlySearches |-> jsOr(item.monthly_searches,
                            jsOr(chained(item.keyword_info, "monthly_searches"),
                                 Arr(<<>>)))]

\* the TypeError of a property read on undefined
TypeError == [tag |-> "TypeError"]

RECURSIVE volumeMap(_)
\* results.forEach(item => ...): the Map as [threw, map]; a later item of the
\* same key replaces an earlier one; item.keyword.toLowerCase() on a missing
\* keyword throws a TypeError
volumeMap(results) ==
  IF results = <<>> THEN [threw |-> FALSE, map |-> <<>>]
  ELSE LET item == results[Len(results)]
           before == volumeMap(SubSeq(results, 1, Len(results) - 1))
       IN IF before.threw \/ ~hasVolume(item) THEN before
          ELSE IF item.keyword.tag # "keyword" THEN [threw |-> TRUE, map |-> <<>>]
          ELSE LET key == toLowerCase(item.keyword)
               IN [threw |-> FALSE,
                   map |-> [x \in DOMAIN before.map \cup {key} |->
                              IF x = key THEN volumeEntry(item) ELSE before.map[x]]]

keywordFromItem(data, keyword) == data

\* { ...data, keyword: keyword }
preserveKeyword(data, keyword) == [data EXCEPT !.keyword = keyword]

\* processSearchVolumeResults(results, originalKeywords, normalizedKeywords),
\* as [threw, value]
processSearchVolumeResults(results, originalKeywords, normalizedKeywords) ==
  LET vm == volumeMap(results)
  IN IF vm.threw THEN [threw |-> TRUE, value |-> TypeError]
     ELSE [threw |-> FALSE,
           value |-> [j \in 1..Len(originalKeywords) |->
                        IF normalizedKeywords[j] \in DOMAIN vm.map
                          THEN preserveKeyword(vm.map[normalizedKeywords[j]],
                                               originalKeywords[j])
                          ELSE zeroRecord(originalKeywords[j])]]

\* what axios throws: an error with the response of the server (kind
\* "response", with its HTTP status), one for a request that got no response
\* (kind "request"), or any other error raised while the request was set up
\* or the reply was read (kind "setup")
AxiosError(kind, status) == [tag |-> "axios", kind |-> kind, status |-> status]

\* an Error built by the service itself, with what its message holds
ServiceError(message, status) == [tag |-> "error", message |-> message, status |-> status]

\* formatError
formatError(error) ==
  IF error.kind = "response"
    THEN ServiceError("DataForSEO API Error", error.status)
  ELSE IF error.kind = "request"
    THEN ServiceError("DataForSEO API: No response received", 0)
  ELSE error

\* makeRequest once axios has settled: response.data, or the formatted error
makeRequest(reply) ==
  IF reply.shape = "error" THEN [threw |-> TRUE, value |-> formatError(reply.error)]
                           ELSE [threw |-> FALSE, value |-> reply]

\* the failures of a remote call: refused credentials, a rate limit, no
\* response at all, and an error raised before anything was sent
TransportErrors ==
  {AxiosError("response", 401), AxiosError("response", 429), AxiosError("request", 0),
   AxiosError("setup", 0)}

\* getSearchVolume after makeRequest has answered with `response`: shape is
\* "error" (makeRequest threw), "noTasks", "noResult" (tasks[0].result missing
\* or empty) or "result" (tasks[0].result = response.result); as [threw, value]
getSearchVolume(keywords, response) ==
  CASE response.shape = "error" -> makeRequest(response)
    [] response.shape = "noTasks" ->
         [threw |-> TRUE, value |-> ServiceError("No tasks in response", 0)]
    [] response.shape = "noResult" \/ (response.shape = "result" /\ response.result = <<>>) ->
         [threw |-> FALSE, value |-> [j \in 1..Len(keywords) |-> zeroRecord(keywords[j])]]
    [] OTHER ->
         processSearchVolumeResults(response.result, keywords, normalize(keywords))

\* the keyword strings a caller passes: 'x', ' X ' and 'y'
KeywordStrings ==
  {Keyword("x", FALSE, FALSE), Keyword("x", TRUE, TRUE), Keyword("y", FALSE, FALSE)}

\* the keyword of a result item: 'x', 'X', or none
ItemKeywords == {Keyword("x", FALSE, FALSE), Keyword("x", TRUE, FALSE), Undef}

\* a result item: with its volume fields at the top level, with them all null,
\* with them under keyword_info, with them all null there, or with none
Item(keyword, shape) ==
  CASE shape = "flat" ->
         [keyword |-> keyword, keyword_info |-> Undef, search_volume |-> Num(1200),
          competition |-> Str(<<"HIGH">>), cpc |-> Num(15),
          monthly_searches |-> Arr(<<100>>)]
    [] shape = "flatNull" ->
         [keyword |-> keyword, keyword_info |-> Undef, search_volume |-> Null,
          competition |-> Null, cpc |-> Null, monthly_searches |-> Null]
    [] shape = "info" ->
         [keyword |-> keyword,
          keyword_info |-> Obj(Num(900), Str(<<"LOW">>), Num(7), Arr(<<80>>)),
          search_volume |-> Undef, competition |-> Undef, cpc |-> Undef,
          monthly_searches |-> Undef]
    [] shape = "infoNull" ->
         [keyword |-> keyword, keyword_info |-> Obj(Null, Null, Null, Null),
          search_volume |-> Undef, competition |-> Undef, cpc |-> Undef,
          monthly_searches |-> Undef]
    [] shape = "bare" ->
         [keyword |-> keyword, keyword_info |-> Undef, search_volume |-> Undef,
          competition |-> Undef, cpc |-> Undef, monthly_searches |-> Undef]

Items ==
  {Item(k, shape) : k \in ItemKeywords,
                    shape \in {"flat", "flatNull", "info", "infoNull", "bare"}}

\* every sequence over S of length at most n
SeqUpTo(S, n) == UNION {[1..m -> S] : m \in 0..n}

\* what makeRequest can answer a search-volume request with
SearchVolumeReplies ==
  {[shape |-> "error", result |-> <<>>, error |-> e] : e \in TransportErrors}
  \cup {[shape |-> sh, result |-> <<>>, error |-> Null] : sh \in {"noTasks", "noResult"}}
  \cup {[shape |-> "result", result |-> r, error |-> Null] : r \in SeqUpTo(Items, MaxItems)}

\* getSearchVolume(keywords) up to its await: the request carries the
\* normalized keywords
GetSearchVolume(keywords) ==
  /\ lookup.pc = "idle"
  /\ lookup' = [pc |-> "searchVolume", keywords |-> keywords,
                requested |-> normalize(keywords)]
  /\ UNCHANGED <<env, servicesInitialized, services, usageTracker, request, handler,
                 page, generator, own, calls>>

\* the rest of getSearchVolume once makeRequest has answered
GetSearchVolumeReply(response) ==
  /\ lookup.pc = "searchVolume"
  /\ LET out == getSearchVolume(lookup.keywords, response)
     IN lookup' = [pc |-> IF out.threw THEN "threw" ELSE "returned",
                   keywords |-> lookup.keywords, response |-> response,
                   value |-> out.value]
  /\ UNCHANGED <<env, servicesInitialized, services, usageTracker, request, handler,
                 page, generator, own, calls>>

\* the service is built and getSearchVolume is called once, on any keywords
InitSearchVolume ==
  InitWith(AllConfigured, [b \in Batches |-> Null], [b \in Batches |-> <<>>])

NextSearchVolume ==
  \/ /\ lookup.pc = "idle"
     /\ \E keywords \in SeqUpTo(KeywordStrings, MaxKeywords) : GetSearchVolume(keywords)
  \/ /\ lookup.pc = "searchVolume"
     /\ \E response \in SearchVolumeReplies : GetSearchVolumeReply(response)

SpecSearchVolume == InitSearchVolume /\ [][NextSearchVolume]_vars

\* C14: a getSearchVolume call that returns gives one record per keyword, in
\* the order of the keywords, record k carrying the string keywords[k] as it
\* was passed.
C14_OneRecordPerKeyword ==
  lookup.pc = "returned" =>
    /\ Len(lookup.value) = Len(lookup.keywords)
    /\ \A j \in 1..Len(lookup.keywords) : lookup.value[j].keyword = lookup.keywords[j]

\* a call on ' X ' and 'y' has returned on a result list with an item of 'x'
\* first and an item of 'X' after it, and none of 'y'
C14_Witness ==
  /\ lookup.pc = "returned"
  /\ lookup.keywords = <<Keyword("x", TRUE, TRUE), Keyword("y", FALSE, FALSE)>>
  /\ lookup.response.shape = "result"
  /\ lookup.response.result =
       <<Item(Keyword("x", FALSE, FALSE), "info"), Item(Keyword("x", TRUE, FALSE), "flat")>>
  /\ lookup.value[1].searchVolume = Num(1200)
  /\ lookup.value[2] = zeroRecord(Keyword("y", FALSE, FALSE))

\* item tells a volume of keyword: it is for that keyword and one of its
\* volume fields, at the top level or under keyword_info, is not null
tellsVolume(item, keyword) ==
  /\ item.keyword.tag = "keyword"
  /\ toLowerCase(item.keyword) = trim(toLowerCase(keyword))
  /\ \/ item.search_volume.tag = "num"
     \/ chained(item.keyword_info, "search_volume").tag = "num"

\* C15: every record a getSearchVolume call returns has a number as
\* searchVolume and as cpc, a string as competition and a list as
\* monthlySearches; and the record of a keyword for which the reply has no
\* result list, no item, or only items without volume fields or with null
\* volume fields is {searchVolume:0, competition:'Unknown', cpc:0,
\* monthlySearches:[]}.
C15_ZeroRecordWithoutData ==
  lookup.pc = "returned" =>
    \A j \in 1..Len(lookup.value) :
      LET record == lookup.value[j]
          result == lookup.response.result
      IN /\ record.searchVolume.tag = "num"
         /\ record.competition.tag = "str"
         /\ record.cpc.tag = "num"
         /\ record.monthlySearches.tag = "array"
         /\ (\A i \in 1..Len(result) : ~tellsVolume(result[i], lookup.keywords[j]))
              => record = zeroRecord(lookup.keywords[j])

\* ------------------------------------------------------------ soft failures

\* C16: a page whose attempt maxRetries returned a text outside the bound,
\* whatever its earlier attempts did, settles as a success that carries that
\* text and its word count with isValidLength false; the batch's response
\* holds that result and counts it among the successful generations.
C16_ViolationIsSuccess ==
  \A b \in Batches : \A k \in DOMAIN page[b] :
    LET p == page[b][k]
    IN (Len(p.hist) = maxRetries /\ violating(p.hist[maxRetries])) =>
         /\ p.pc = "settled"
         /\ p.value.success
         /\ p.value.description = p.hist[maxRetries].reply.content
         /\ p.value.wordCount = p.hist[maxRetries].reply.content.words
         /\ ~p.value.isValidLength
         /\ responded(b) =>
              /\ handler[b].response.results[k] = p.value
              /\ handler[b].response.summary.successfulGenerations >= 1

\* a batch has been answered whose page had a first attempt that threw, a
\* second that was too long and a last that was too short
C16_Witness ==
  \E b \in Batches : \E k \in DOMAIN page[b] :
    LET p == page[b][k]
    IN /\ responded(b)
       /\ Len(p.hist) = maxRetries
       /\ p.hist[1].threw
       /\ violating(p.hist[2]) /\ p.hist[2].reply.content.words > lengthMax
       /\ violating(p.hist[3]) /\ p.hist[3].reply.content.words < lengthMin
       /\ handler[b].response.results[k].success
       /\ ~handler[b].response.results[k].isValidLength

\* ------------------------------------------------------------ sub-fetch failures

\* C17: a page whose search-volume lookup failed goes on to generation, which
\* is given null as search volume; it ends as a failure only when its provider
\* throws on every attempt, and otherwise as a success with searchVolume null.
C17_VolumeFailureNotFatal ==
  \A b \in Batches : \A k \in DOMAIN page[b] :
    LET p == page[b][k]
    IN p.fetched.sv = "failed" =>
         /\ gatherDone(p) => p.pc \in {"generate", "settled"}
         /\ p.pc \in {"generate", "settled"} => p.given.searchVolume = Null
         /\ p.pc = "settled" =>
              /\ Len(p.hist) >= 1
              /\ p.value.success <=> generator[b][k] # "throws"
              /\ p.value.success => p.value.searchVolume = Null

\* a batch has been answered in which the lookup of one page failed and that of
\* another returned a volume, and both pages succeeded
C17_Witness ==
  \E b \in Batches : \E j, k \in DOMAIN page[b] :
    /\ responded(b)
    /\ page[b][j].fetched.sv = "failed"
    /\ handler[b].response.results[j].success
    /\ handler[b].response.results[j].searchVolume = Null
    /\ page[b][k].fetched.sv = "ok"
    /\ handler[b].response.results[k].success
    /\ handler[b].response.results[k].searchVolume = Num(50000)

\* most pages of a request, and most organic results of a SERP reply, when
\* every step of the sub-fetches may fail
MaxChainPages == 1
MaxChainOrganic == 2

\* one batch of 1..MaxChainPages pages, with or without search volume and
\* competitor analysis; each page's provider complies or throws on every
\* generation call
InitChain ==
  \E n \in 1..MaxChainPages, sv \in BOOLEAN, ca \in BOOLEAN, model \in Models :
    \E g \in [1..n -> {"throws", "valid"}] :
      InitWith(AllConfigured,
               [b \in Batches |-> IF b = 1 THEN PostRequest(n, sv, ca, model) ELSE Null],
               [b \in Batches |-> IF b = 1 THEN g ELSE <<>>])

NextChain ==
  \/ \E b \in Batches : Handler(b)
  \/ \E b \in Batches : \E k \in DOMAIN page[b] : \E r \in {SvError, SvOk(50000)} :
       SearchVolumeResponse(b, k, r)
  \/ \E b \in Batches : \E k \in DOMAIN page[b] :
       \E r \in {SerpError, SerpOk(0), SerpOk(MaxChainOrganic)} : SerpResponse(b, k, r)
  \/ \E b \in Batches : \E k \in DOMAIN page[b] : \E u \in DOMAIN page[b][k].urls :
       ContentTimer(b, k, u)
  \/ \E b \in Batches : \E k \in DOMAIN page[b] : \E u \in DOMAIN page[b][k].urls :
       \E r \in {ContentError, ContentOk(contentThreshold), ContentOk(3000)} :
         ContentResponse(b, k, u, r)
  \/ \E b \in Batches : \E k \in DOMAIN page[b] : \E r \in {InsightError, InsightOk} :
       InsightResponse(b, k, r)
  \/ \E b \in Batches : \E k \in DOMAIN page[b] : \E r \in repliesOf(generator[b][k]) :
       GenResponse(b, k, r)

SpecChain == InitChain /\ [][NextChain]_vars

\* C18: a page whose competitor chain failed (the SERP lookup threw, no fetched
\* page had meaningful content, or the insight call threw) goes on to
\* generation, which is given null as insights; it ends as a failure only when
\* its provider throws on every attempt, and otherwise as a success with
\* hasCompetitorInsights false.
C18_ChainFailureNotFatal ==
  \A b \in Batches : \A k \in DOMAIN page[b] :
    LET p == page[b][k]
    IN p.fetched.ca \in {"serpFailed", "noContent", "insightFailed"} =>
         /\ gatherDone(p) => p.pc \in {"generate", "settled"}
         /\ p.pc \in {"generate", "settled"} => p.given.competitorInsights = Null
         /\ p.pc = "settled" =>
              /\ Len(p.hist) >= 1
              /\ p.value.success <=> generator[b][k] # "throws"
              /\ p.value.success => ~p.value.hasCompetitorInsights

\* a batch has been answered in which the chain of a page failed at the
\* insight call while its search-volume lookup returned, and the page succeeded
C18_Witness ==
  \E b \in Batches : \E k \in DOMAIN page[b] :
    /\ responded(b)
    /\ page[b][k].fetched.ca = "insightFailed"
    /\ page[b][k].fetched.sv = "ok"
    /\ handler[b].response.results[k].success
    /\ handler[b].response.results[k].searchVolume = Num(50000)
    /\ handler[b].response.results[k].competitorDomains # <<>>
    /\ ~handler[b].response.results[k].hasCompetitorInsights

\* C19: a page makes no generation attempt while one of its requested
\* sub-fetches is pending; once generation has started both are over, the
\* search-volume record and the insights it was given are the ones they
\* produced, null for each that failed or was not requested, and the first
\* attempt runs on those insights.
C19_GenerationAfterGather ==
  \A b \in Batches : \A k \in DOMAIN page[b] :
    LET p == page[b][k]
    IN /\ (p.fetched.sv = "pending" \/ p.fetched.ca = "pending") =>
            /\ p.pc = "gather"
            /\ p.attempt = 0
            /\ p.hist = <<>>
       /\ p.pc \in {"generate", "settled"} =>
            /\ p.given.searchVolume = p.fetched.searchVolume
            /\ p.given.competitorInsights = p.fetched.insights
            /\ p.fetched.sv \in {"off", "failed"} => p.given.searchVolume = Null
            /\ p.fetched.ca # "ok" => p.given.competitorInsights = Null
       /\ (p.pc = "generate" /\ p.attempt = 1) => p.ctx = p.fetched.insights

\* the first attempt of a page is in flight with the volume and the insights
\* that its two sub-fetches produced
C19_Witness ==
  \E b \in Batches : \E k \in DOMAIN page[b] :
    /\ page[b][k].pc = "generate"
    /\ page[b][k].attempt = 1
    /\ page[b][k].hist = <<>>
    /\ page[b][k].fetched.sv = "ok"
    /\ page[b][k].fetched.ca = "ok"
    /\ page[b][k].given.searchVolume # Null
    /\ Truthy(page[b][k].given.competitorInsights)

\* ------------------------------------------------------------ request validation

\* a request whose pages field is `kind`: "missing", "array", or "string" for a
\* value that has a length and is not an array
Request(method, kind, n, model) ==
  [method |-> method, pagesKind |-> kind, pages |-> SubSeq(PageNames, 1, n),
   includeCompetitorAnalysis |-> FALSE, includeSearchVolume |-> FALSE, model |-> model]

\* the pages fields a client may send: none, a string of two characters, or an
\* array of up to one page more than the handler accepts
PagesFields ==
  {<<"missing", 0>>, <<"string", 2>>}
  \cup {<<"array", n>> : n \in 0..(maxPagesPerRequest + 1)}

\* the model fields a client may send: none, null, the empty string, the two
\* known models, a name with 'gemini' not at its start, and one in capitals
ModelFields ==
  Models \cup {Undef, Null, Str(<<>>), Str(<<"my-", "gemini">>), Str(<<"GEMINI", "-pro">>)}

\* one request of any method, pages field and model field, to a process with
\* any of the two provider credentials set
InitEntry ==
  \E openAI \in BOOLEAN, gemini \in BOOLEAN, method \in {"POST", "GET"},
     f \in PagesFields, model \in ModelFields :
    InitWith([openAI |-> openAI, gemini |-> gemini, dataForSEO |-> TRUE],
             [b \in Batches |-> IF b = 1 THEN Request(method, f[1], f[2], model) ELSE Null],
             [b \in Batches |-> IF b = 1 THEN [k \in 1..f[2] |-> "valid"] ELSE <<>>])

NextEntry ==
  \/ \E b \in Batches : Handler(b)
  \/ \E b \in Batches : \E k \in DOMAIN page[b] : \E r \in repliesOf(generator[b][k]) :
       GenResponse(b, k, r)

SpecEntry == InitEntry /\ [][NextEntry]_vars

\* the provider the request's model selects has its credential
providerConfigured(req) ==
  IF isGeminiModel(modelOrDefault(req.model)) THEN env.gemini ELSE env.openAI

\* the pages field is an array of 1..10 elements
wellFormed(req) ==
  req.pagesKind = "array" /\ Len(req.pages) \in 1..maxPagesPerRequest

\* the handler went on to process the batch
accepted(b) == handler[b].pc = "running" \/ responded(b)

\* the handler answered with `status` and no page pipeline was ever started
refusedWith(b, status) ==
  /\ handler[b].pc = "responded"
  /\ handler[b].response.status = status
  /\ \A k \in DOMAIN page[b] : page[b][k].pc = "notStarted"

\* C20 as stated: a POST request the handler has dealt with was refused with
\* 400, no page processed, when its pages field is missing, not an array,
\* empty or longer than 10, and was accepted when it has 1..10 pages.
C20_PagesValidated ==
  \A b \in Batches :
    (request[b] # Null /\ request[b].method = "POST" /\ handler[b].pc # "waiting") =>
      IF wellFormed(request[b]) THEN accepted(b) ELSE refusedWith(b, 400)

\* C20 amended: the same, for a request whose model selects a provider that is
\* configured.
C20_PagesValidatedWhenConfigured ==
  \A b \in Batches :
    (/\ request[b] # Null
     /\ request[b].method = "POST"
     /\ providerConfigured(request[b])
     /\ handler[b].pc # "waiting") =>
      IF wellFormed(request[b]) THEN accepted(b) ELSE refusedWith(b, 400)

\* a request of 11 pages has been refused with 400 although its provider is
\* configured
C20_Witness ==
  \E b \in Batches :
    /\ request[b] # Null
    /\ request[b].method = "POST"
    /\ providerConfigured(request[b])
    /\ request[b].pagesKind = "array"
    /\ Len(request[b].pages) = maxPagesPerRequest + 1
    /\ refusedWith(b, 400)

\* ------------------------------------------------------------ the batch response

\* C21: a batch that passed the provider check and the validation is answered,
\* when it is answered, with status 200 and success true, with one result per
\* page whose success flag is false exactly for the pages that failed, and
\* with the count of the successful ones.
C21_AlwaysOkOnceAccepted ==
  \A b \in Batches :
    (handler[b].pc = "responded" /\ handler[b].aiService # "none") =>
      LET response == handler[b].response
      IN /\ response.status = 200
         /\ response.success
         /\ Len(response.results) = Len(request[b].pages)
         /\ response.summary.totalPages = Len(request[b].pages)
         /\ \A k \in 1..Len(response.results) :
              response.results[k].success <=> generator[b][k] # "throws"
         /\ response.summary.successfulGenerations =
              Cardinality({k \in DOMAIN generator[b] : generator[b][k] # "throws"})

\* a batch of two groups has been answered in which every page failed
C21_Witness ==
  \E b \in Batches :
    /\ handler[b].pc = "responded"
    /\ handler[b].aiService # "none"
    /\ Len(request[b].pages) > maxConcurrent
    /\ \A k \in DOMAIN generator[b] : generator[b][k] = "throws"
    /\ \A k \in 1..Len(handler[b].response.results) :
         ~handler[b].response.results[k].success

\* ------------------------------------------------------------ the brand check

\* most organic results of a SERP reply whose hosts vary
MaxSerpUrls == 3

\* the URLs a SERP reply may hold: the brand's own host, plain or in capitals
\* behind 'www.', a host under it, hosts that only look like it, another
\* site, a host that is nothing but 'www.', and a URL that does not parse
SerpUrls ==
  {Url(TRUE, Str(<<"seatpick", ".", "com">>)),
   Url(TRUE, Str(<<"www.", "SEATPICK", ".", "COM">>)),
   Url(TRUE, Str(<<"tickets", ".", "seatpick", ".", "com">>)),
   Url(TRUE, Str(<<"seatpick", ".", "co">>)),
   Url(TRUE, Str(<<"www.", "stubhub", ".", "com">>)),
   Url(TRUE, Str(<<"www.">>)),
   Url(FALSE, Str(<<"seatpick", ".", "com">>))}

\* one page with competitor analysis; the SERP lookup fails or lists up to
\* MaxSerpUrls URLs, and every competitor page fails to load
InitSerp ==
  \E model \in Models : \E g \in [1..1 -> {"throws", "valid"}] :
    InitWith(AllConfigured,
             [b \in Batches |-> IF b = 1 THEN PostRequest(1, FALSE, TRUE, model) ELSE Null],
             [b \in Batches |-> IF b = 1 THEN g ELSE <<>>])

NextSerp ==
  \/ \E b \in Batches : Handler(b)
  \/ \E b \in Batches : \E k \in DOMAIN page[b] :
       /\ page[b][k].pc = "gather"
       /\ \E r \in {SerpError} \cup {SerpOf(urls) : urls \in SeqUpTo(SerpUrls, MaxSerpUrls)} :
            SerpResponse(b, k, r)
  \/ \E b \in Batches : \E k \in DOMAIN page[b] : \E u \in DOMAIN page[b][k].urls :
       ContentTimer(b, k, u)
  \/ \E b \in Batches : \E k \in DOMAIN page[b] : \E u \in DOMAIN page[b][k].urls :
       ContentResponse(b, k, u, ContentError)
  \/ \E b \in Batches : \E k \in DOMAIN page[b] : \E r \in repliesOf(generator[b][k]) :
       GenResponse(b, k, r)

SpecSerp == InitSerp /\ [][NextSerp]_vars

\* the domain, read without regard to capitals, has 'seatpick', '.', 'com' in a row
holdsBrand(domain) ==
  \E i \in 1..(Len(domain.text) - 2) :
    /\ lowerPiece(domain.text[i]) = "seatpick"
    /\ domain.text[i + 1] = "."
    /\ lowerPiece(domain.text[i + 2]) = "com"

\* C22: in every successful PageResult seatpickTop3 is true exactly when one of
\* the result's competitorDomains contains 'seatpick.com', capitals ignored;
\* with no competitor domains it is false.
C22_SeatpickTop3IffBrandListed ==
  \A b \in Batches :
    handler[b].pc = "responded" /\ handler[b].response.status = 200 =>
      \A k \in 1..Len(handler[b].response.results) :
        LET result == handler[b].response.results[k]
        IN result.success =>
             /\ result.seatpickTop3 <=>
                  \E j \in 1..Len(result.competitorDomains) :
                    holdsBrand(result.competitorDomains[j])
             /\ result.competitorDomains = <<>> => ~result.seatpickTop3

\* a page whose only brand domain is a host under seatpick.com, listed after
\* another site, is reported as ranking; and a page with domains but none of
\* the brand is not
C22_Witness ==
  \E b \in Batches :
    /\ handler[b].pc = "responded"
    /\ handler[b].response.status = 200
    /\ LET result == handler[b].response.results[1]
       IN /\ result.success
          /\ result.seatpickTop3
          /\ result.competitorDomains =
               <<Str(<<"stubhub", ".", "com">>),
                 Str(<<"tickets", ".", "seatpick", ".", "com">>)>>

\* ------------------------------------------------------------ the reported volume

\* most pages of a request whose search-volume lookups return any volume
MaxVolumePages == 2

\* one batch of 1..MaxVolumePages pages with search volume asked for; each
\* page's provider complies or throws on every generation call
InitVolume ==
  \E n \in 1..MaxVolumePages, model \in Models :
    \E g \in [1..n -> {"throws", "valid"}] :
      InitWith(AllConfigured,
               [b \in Batches |-> IF b = 1 THEN PostRequest(n, TRUE, FALSE, model) ELSE Null],
               [b \in Batches |-> IF b = 1 THEN g ELSE <<>>])

\* the lookup fails, or returns a record with a volume of 0, 1 or 50000
NextVolume ==
  \/ \E b \in Batches : Handler(b)
  \/ \E b \in Batches : \E k \in DOMAIN page[b] :
       \E r \in {SvError, SvOk(0), SvOk(1), SvOk(50000)} : SearchVolumeResponse(b, k, r)
  \/ \E b \in Batches : \E k \in DOMAIN page[b] : \E r \in repliesOf(generator[b][k]) :
       GenResponse(b, k, r)

SpecVolume == InitVolume /\ [][NextVolume]_vars

\* C23: when search volume was asked for and the lookup returned a record with
\* searchVolume v >= 0 for the page, the page's successful PageResult has
\* searchVolume equal to v.
C23_VolumeReported ==
  \A b \in Batches :
    handler[b].pc = "responded" /\ handler[b].response.status = 200 =>
      \A k \in 1..Len(handler[b].response.results) :
        LET result == handler[b].response.results[k]
            found == page[b][k].fetched
        IN (/\ result.success
            /\ request[b].includeSearchVolume
            /\ found.sv = "ok"
            /\ found.searchVolume.searchVolume >= 0) =>
             result.searchVolume = Num(found.searchVolume.searchVolume)

\* ------------------------------------------------------------ getCompetitorContent

\* most URLs handed to getCompetitorContent
MaxContentUrls == 4

\* the limits it is called with; the last one is the default
ContentLimits == {1, 2, contentLimit}

\* what the fetch of one competitor page may end in: a timeout, error status
\* or parse error, or a body text of some length
ContentReplies ==
  {ContentError, ContentOk(0), ContentOk(contentThreshold), ContentOk(contentThreshold + 1),
   ContentOk(3000), ContentOk(3001)}

\* what getCompetitorContent returns once Promise.all has resolved
competitorContentReturn(call, results) ==
  [pc |-> "returned", urls |-> call.urls, limit |-> call.limit, results |-> results,
   replies |-> call.replies, value |-> validResults(results)]

\* getCompetitorContent(urls, limit) is called on its own and runs up to its
\* await; with nothing to fetch Promise.all([]) resolves at once
GetCompetitorContent(urls, limit) ==
  /\ lookup.pc = "idle"
  /\ LET call == [pc |-> "content", urls |-> urls, limit |-> limit,
                  results |-> attempts(urls, limit),
                  replies |-> [j \in 1..Len(attempts(urls, limit)) |-> Null]]
     IN lookup' = IF allResolved(call.results)
                    THEN competitorContentReturn(call, call.results)
                    ELSE call
  /\ UNCHANGED <<env, servicesInitialized, services, usageTracker, request, handler,
                 page, generator, own, calls>>

\* the delay of fetch u elapses and axios.get(url) is issued
GetCompetitorContentTimer(u) ==
  /\ lookup.pc = "content"
  /\ lookup.results[u].st = "timer"
  /\ \A j \in 1..(u - 1) : lookup.results[j].st # "timer"
  /\ lookup' = [lookup EXCEPT !.results[u].st = "inflight"]
  /\ UNCHANGED <<env, servicesInitialized, services, usageTracker, request, handler,
                 page, generator, own, calls>>

\* fetch u ends; after the last one the call returns the valid results
GetCompetitorContentReply(u, r) ==
  /\ lookup.pc = "content"
  /\ lookup.results[u].st = "inflight"
  /\ LET results == [lookup.results EXCEPT ![u] = contentResult(@, r)]
         call == [lookup EXCEPT !.results = results, !.replies[u] = r]
     IN lookup' = IF allResolved(results) THEN competitorContentReturn(call, results)
                                          ELSE call
  /\ UNCHANGED <<env, servicesInitialized, services, usageTracker, request, handler,
                 page, generator, own, calls>>

\* the service is built and getCompetitorContent is called once
InitContent ==
  InitWith(AllConfigured, [b \in Batches |-> Null], [b \in Batches |-> <<>>])

NextContent ==
  \/ /\ lookup.pc = "idle"
     /\ \E n \in 0..MaxContentUrls, limit \in ContentLimits :
          GetCompetitorContent(SerpOk(n).organicResults, limit)
  \/ /\ lookup.pc = "content"
     /\ \E u \in DOMAIN lookup.results : GetCompetitorContentTimer(u)
  \/ /\ lookup.pc = "content"
     /\ \E u \in DOMAIN lookup.results : \E r \in ContentReplies :
          GetCompetitorContentReply(u, r)

SpecContent == InitContent /\ [][NextContent]_vars

\* the call has ended, one way or the other
contentCallOver == lookup.pc \in {"returned", "threw"}

\* how many URLs the call had to attempt
toAttempt == Min(lookup.limit, Len(lookup.urls))

\* C24: getCompetitorContent does not throw on account of a failed fetch; it
\* returns only when each of the first `limit` URLs has been attempted and its
\* attempt has resolved, and every URL whose fetch failed stands in the
\* resolved list as a placeholder with contentLength 0.
C24_ResolvesAfterEveryAttempt ==
  contentCallOver =>
    /\ lookup.pc = "returned"
    /\ Len(lookup.results) = toAttempt
    /\ \A j \in 1..toAttempt :
         /\ lookup.replies[j] # Null
         /\ lookup.results[j].st = "done"
         /\ ~lookup.replies[j].ok => lookup.results[j].contentLength = 0

\* three URLs of which the second fails while the others load: the call
\* returns, with the placeholder among the resolved attempts
C24_Witness ==
  /\ lookup.pc = "returned"
  /\ toAttempt = contentLimit
  /\ lookup.replies[1].ok
  /\ ~lookup.replies[2].ok
  /\ lookup.replies[3].ok
  /\ lookup.results[2].contentLength = 0

\* the positions in urls of the entries the call returned
returnedUrls == {lookup.value[i].url : i \in 1..Len(lookup.value)}

\* the fetch of the URL at position j loaded a text of more than 100
\* characters, counted after the cut to 3000
meaningful(j) ==
  /\ lookup.replies[j].ok
  /\ (IF lookup.replies[j].length > 3000 THEN 3000 ELSE lookup.replies[j].length) > 100

\* C25: getCompetitorContent(urls, limit) attempts the first `limit` URLs and
\* no other; it returns, in the order of urls, exactly the attempts that
\* loaded more than 100 characters, so no placeholder is among them, and no
\* returned content is longer than 3000 characters.
C25_FirstLimitMeaningfulInOrder ==
  /\ lookup.pc \in {"content", "returned"} =>
       /\ Len(lookup.results) <= lookup.limit
       /\ \A j \in 1..Len(lookup.results) : lookup.results[j].url = j
  /\ lookup.pc = "returned" =>
       /\ returnedUrls = {j \in 1..toAttempt : meaningful(j)}
       /\ \A i \in 1..Len(lookup.value) :
            /\ lookup.value[i].contentLength > 100
            /\ lookup.value[i].content <= 3000
            /\ lookup.value[i].content # placeholderContent
            /\ \A h \in 1..(i - 1) : lookup.value[h].url < lookup.value[i].url

\* four URLs with the default limit: the first loads 101 characters, the second
\* exactly 100, the third more than 3000, and the fourth is never attempted;
\* the first and the third are returned, the third cut to 3000
C25_Witness ==
  /\ lookup.pc = "returned"
  /\ Len(lookup.urls) > contentLimit
  /\ lookup.limit = contentLimit
  /\ lookup.replies = <<ContentOk(contentThreshold + 1), ContentOk(contentThreshold),
                        ContentOk(3001)>>
  /\ Len(lookup.value) = 2
  /\ lookup.value[1].url = 1
  /\ lookup.value[2].url = 3
  /\ lookup.value[2].content = 3000

\* ------------------------------------------------------------ getTaskResults

\* most polling attempts getTaskResults is asked for, besides its default
MaxPollRetries == 4

\* getTaskResults(taskId, retries = 8)
defaultRetries == 8

\* what axios can settle a task-result request with: a failure, a body without
\* tasks, a task without result, a task with an empty or a filled result
TaskReplies ==
  {[shape |-> "error", error |-> AxiosError("response", 500), result |-> Null],
   [shape |-> "noTasks", error |-> Null, result |-> Null],
   [shape |-> "noResult", error |-> Null, result |-> Null],
   [shape |-> "result", error |-> Null, result |-> Arr(<<>>)],
   [shape |-> "result", error |-> Null, result |-> Arr(<<Item(Undef, "bare")>>)]}

\* response.tasks && response.tasks[0] && response.tasks[0].result
carriesResult(response) == response.shape = "result" /\ jsTruthy(response.result)

pollWaitFlat(i) == 5000

\* const waitTime = 5000 + (i * 3000)
pollWait(i) == 5000 + (i * 3000)

\* getTaskResults(taskId, retries) up to its first await: the first request is
\* sent, or with no attempt allowed the final error is thrown at once
GetTaskResults(retries) ==
  /\ lookup.pc = "idle"
  /\ lookup' = IF 0 < retries
                 THEN [pc |-> "poll", retries |-> retries, i |-> 0, replies |-> <<>>,
                       waits |-> <<>>, value |-> Null]
                 ELSE [pc |-> "threw", retries |-> retries, i |-> 0, replies |-> <<>>,
                       waits |-> <<>>,
                       value |-> ServiceError("Failed to get task results after maximum retries", 0)]
  /\ UNCHANGED <<env, servicesInitialized, services, usageTracker, request, handler,
                 page, generator, own, calls>>

\* the request of attempt i settles: the result is returned, or the wait
\* before the next attempt starts, or after the last attempt the error is thrown
GetTaskResultsReply(reply) ==
  /\ lookup.pc = "poll"
  /\ LET i == lookup.i
         out == makeRequest(reply)
         heard == [lookup EXCEPT !.replies = Append(@, reply)]
     IN lookup' =
          IF ~out.threw /\ carriesResult(out.value)
            THEN [heard EXCEPT !.pc = "returned", !.value = out.value.result]
          ELSE IF i < lookup.retries - 1
            THEN [heard EXCEPT !.pc = "wait", !.waits = Append(@, pollWait(i))]
          ELSE IF out.threw
            THEN [heard EXCEPT !.pc = "threw", !.value = out.value]
          ELSE [heard EXCEPT !.pc = "threw", !.i = i + 1,
                             !.value = ServiceError("Failed to get task results after maximum retries", 0)]
  /\ UNCHANGED <<env, servicesInitialized, services, usageTracker, request, handler,
                 page, generator, own, calls>>

\* the wait is over: i++ and the next request is sent
GetTaskResultsTimer ==
  /\ lookup.pc = "wait"
  /\ lookup' = [lookup EXCEPT !.pc = "poll", !.i = @ + 1]
  /\ UNCHANGED <<env, servicesInitialized, services, usageTracker, request, handler,
                 page, generator, own, calls>>

\* the service is built and getTaskResults is called once
InitTask ==
  InitWith(AllConfigured, [b \in Batches |-> Null], [b \in Batches |-> <<>>])

NextTask ==
  \/ /\ lookup.pc = "idle"
     /\ \E retries \in (0..MaxPollRetries) \cup {defaultRetries} : GetTaskResults(retries)
  \/ /\ lookup.pc = "poll"
     /\ \E reply \in TaskReplies : GetTaskResultsReply(reply)
  \/ GetTaskResultsTimer

SpecTask == InitTask /\ [][NextTask]_vars

\* the replies heard so far that carried no result
withoutResult(replies) == {j \in 1..Len(replies) : replies[j].shape # "result"}

C27_RemoteFailureNormalized ==
  (lookup.pc = "threw" /\ lookup.response.shape = "error") =>
    /\ lookup.value.tag = "error"
    /\ lookup.value # lookup.response.error

\* ------------------------------------------------------------ the summary

\* C28: a getSummary() call leaves the ledger as it was, and the summary it
\* returns has totalTokens = totalInputTokens + totalOutputTokens and
\* averageTokensPerRequest equal to that total divided by requestCount and
\* rounded to the nearest integer (halves upwards), or 0 with no request.
C28_SummaryIsProjection ==
  [][\A s \in Services :
       calls'[s].summary # Null =>
         LET t == usageTracker[s]
             summary == calls'[s].summary
             total == t.totalInputTokens + t.totalOutputTokens
             average == summary.averageTokensPerRequest
         IN /\ usageTracker' = usageTracker
            /\ summary.totalInputTokens = t.totalInputTokens
            /\ summary.totalOutputTokens = t.totalOutputTokens
            /\ summary.requestCount = t.requests
            /\ summary.totalTokens = total
            /\ t.requests = 0 => average = 0
            /\ t.requests > 0 =>
                 /\ 2 * average * t.requests <= 2 * total + t.requests
                 /\ 2 * total + t.requests < 2 * (average + 1) * t.requests]_vars

\* the summary of two calls with 11 tokens in all reports an average of 6
C28_Witness ==
  \E s \in Services :
    /\ calls[s].summary # Null
    /\ calls[s].summary.requestCount = 2
    /\ calls[s].summary.totalTokens = 11
    /\ calls[s].summary.averageTokensPerRequest = 6

\* ------------------------------------------------------------ the feedback

\* one page, with or without competitor analysis, whose provider may give any
\* reply to each generation call; the competitor chain yields insights or fails
\* at the insight call
InitFeedback ==
  \E ca \in BOOLEAN, model \in Models :
    InitWith(AllConfigured,
             [b \in Batches |-> IF b = 1 THEN PostRequest(1, FALSE, ca, model) ELSE Null],
             [b \in Batches |-> IF b = 1 THEN [k \in 1..1 |-> "any"] ELSE <<>>])

NextFeedback ==
  \/ \E b \in Batches : Handler(b)
  \/ \E b \in Batches : \E k \in DOMAIN page[b] : SerpResponse(b, k, SerpOk(1))
  \/ \E b \in Batches : \E k \in DOMAIN page[b] : \E u \in DOMAIN page[b][k].urls :
       ContentTimer(b, k, u)
  \/ \E b \in Batches : \E k \in DOMAIN page[b] : \E u \in DOMAIN page[b][k].urls :
       ContentResponse(b, k, u, ContentOk(3000))
  \/ \E b \in Batches : \E k \in DOMAIN page[b] :
       \E r \in {InsightError, InsightEmpty, InsightOk} : InsightResponse(b, k, r)
  \/ \E b \in Batches : \E k \in DOMAIN page[b] : \E r \in repliesOf(generator[b][k]) :
       GenResponse(b, k, r)

SpecFeedback == InitFeedback /\ [][NextFeedback]_vars

\* the paragraphs of a context; null has none
paragraphs(ctx) == IF ctx = Null THEN <<>> ELSE ctx.text

\* the instruction that names w words and the bound they broke
instruction(w) ==
  IF w < 350 THEN [only |-> TRUE, words |-> w, must |-> "at least", bound |-> 350]
             ELSE [only |-> FALSE, words |-> w, must |-> "under", bound |-> 500]

\* C29: attempt 1 is given the gathered insights; when an attempt that is not
\* the last returns a violating text of w words, the next attempt is given the
\* instruction for w followed by the context of this attempt, also when that
\* context was null, so that instructions pile up newest first; when an
\* attempt throws, the next attempt is given the same context.
C29_FeedbackPrepended ==
  \A b \in Batches : \A k \in DOMAIN page[b] :
    LET p == page[b][k]
        issued == [j \in 1..Len(p.hist) |-> p.hist[j].ctx]
                    \o (IF p.pc = "generate" THEN <<p.ctx>> ELSE <<>>)
    IN /\ Len(issued) >= 1 => issued[1] = p.given.competitorInsights
       /\ \A j \in 1..(Len(issued) - 1) :
            /\ violating(p.hist[j]) =>
                 /\ issued[j + 1] # Null
                 /\ issued[j + 1].text =
                      <<instruction(p.hist[j].reply.content.words)>> \o paragraphs(issued[j])
            /\ p.hist[j].threw => issued[j + 1] = issued[j]

\* a page with insights: attempt 1 is too long, attempt 2 too short, and
\* attempt 3 is given both instructions, the newer first, before the insights
C29_Witness ==
  \E b \in Batches : \E k \in DOMAIN page[b] :
    LET p == page[b][k]
    IN /\ Len(p.hist) = maxRetries
       /\ p.hist[1].ctx = InsightOk.content
       /\ p.hist[3].ctx.text =
            <<instruction(lengthMin - 1), instruction(lengthMax + 1)>>
              \o InsightOk.content.text

\* ------------------------------------------------------------ the length verdict

\* the result's wordCount is the number of words of its own description, and
\* its isValidLength tells whether that number lies within 350..500
lengthDerived(result) ==
  /\ result.wordCount = result.description.words
  /\ result.isValidLength <=> (350 <= result.wordCount /\ result.wordCount <= 500)

\* C30: every result generateDescription returned, and every successful
\* PageResult, has wordCount equal to the number of non-empty
\* whitespace-separated tokens of its description and isValidLength true
\* exactly when 350 <= wordCount <= 500.
C30_LengthVerdictDerived ==
  \A b \in Batches : \A k \in DOMAIN page[b] :
    LET p == page[b][k]
    IN /\ p.lastResult # Null => lengthDerived(p.lastResult)
       /\ (p.pc = "settled" /\ p.value.success) => lengthDerived(p.value)

\* a page is settled with a text of 500 words between whitespace, found valid,
\* after an attempt whose empty text was counted as 0 words
C30_Witness ==
  \E b \in Batches : \E k \in DOMAIN page[b] :
    LET p == page[b][k]
    IN /\ p.pc = "settled"
       /\ p.value.success
       /\ p.value.description = Text(lengthMax, TRUE)
       /\ p.value.wordCount = lengthMax
       /\ p.value.isValidLength
       /\ Len(p.hist) = 2
       /\ ~p.hist[1].threw
       /\ p.hist[1].reply.content = Text(0, FALSE)

\* ------------------------------------------------------------ termination

\* most pages of a request when the batch is followed to its response
MaxLivePages == 4

\* one batch of 1..MaxLivePages pages with search volume asked for, each
\* page's provider throwing or violating on every generation call, so that
\* every page makes all the calls it may
InitLive ==
  \E n \in 1..MaxLivePages :
    \E g \in [1..n -> {"throws", "short"}] :
      InitWith(AllConfigured,
               [b \in Batches |-> IF b = 1 THEN PostRequest(n, TRUE, FALSE, gpt4o) ELSE Null],
               [b \in Batches |-> IF b = 1 THEN g ELSE <<>>])

\* some search-volume request is answered
SomeSearchVolumeResponse ==
  \E b \in Batches : \E k \in DOMAIN page[b] : \E r \in {SvError, SvOk(50000)} :
    SearchVolumeResponse(b, k, r)

\* some generation call is answered
SomeGenResponse ==
  \E b \in Batches : \E k \in DOMAIN page[b] : \E r \in repliesOf(generator[b][k]) :
    GenResponse(b, k, r)

NextLive ==
  \/ \E b \in Batches : Handler(b)
  \/ SomeSearchVolumeResponse
  \/ SomeGenResponse

\* every external call that is awaited resolves or rejects in the end
SpecLive ==
  /\ InitLive
  /\ [][NextLive]_vars
  /\ WF_vars(SomeSearchVolumeResponse)
  /\ WF_vars(SomeGenResponse)

\* C31: no page makes more than maxRetries generation calls, and, external
\* calls being answered in the end, every batch that was accepted sends its
\* response.
C31_BatchEventuallyAnswered ==
  /\ [](\A b \in Batches : \A k \in DOMAIN page[b] : Len(page[b][k].hist) <= maxRetries)
  /\ \A b \in Batches : (handler[b].pc = "running") ~> (handler[b].pc = "responded")

\* a batch of two groups has been answered after one of its pages used all
\* of its maxRetries generation calls
C31_Witness ==
  \E b \in Batches :
    /\ handler[b].pc = "responded"
    /\ Len(page[b]) > maxConcurrent
    /\ \E k \in DOMAIN page[b] :
         Len(page[b][k].hist) = maxRetries /\ page[b][k].value.success
    /\ \E k \in DOMAIN page[b] :
         Len(page[b][k].hist) = maxRetries /\ ~page[b][k].value.success

\* ------------------------------------------------------------ provider selection

\* the request names a model that begins with 'gemini'
namesGemini(req) ==
  /\ req.model.tag = "str"
  /\ Len(req.model.text) >= 1
  /\ req.model.text[1] = "gemini"

\* the credential of the provider the request selects is set
selectedHasKey(req) == IF namesGemini(req) THEN env.gemini ELSE env.openAI

\* C32: a POST request is served by Gemini when its model begins with
\* 'gemini' and by OpenAI otherwise, also without a model; it is answered 503,
\* no page processed, exactly when that provider is not configured, whatever
\* the other provider and the pages field are, so that an invalid page list
\* gets 400 only when the provider is configured.
C32_ProviderSelectedThenChecked ==
  \A b \in Batches :
    (request[b] # Null /\ request[b].method = "POST" /\ handler[b].pc # "waiting") =>
      LET req == request[b]
      IN /\ refusedWith(b, 503) <=> ~selectedHasKey(req)
         /\ accepted(b) =>
              handler[b].aiService = IF namesGemini(req) THEN "Gemini" ELSE "OpenAI"
         /\ refusedWith(b, 400) => selectedHasKey(req) /\ ~wellFormed(req)

\* a request for a Gemini model without pages, to a process that has only the
\* OpenAI credential, has been answered 503
C32_Witness ==
  \E b \in Batches :
    /\ request[b] # Null
    /\ request[b].method = "POST"
    /\ request[b].model = geminiFlash
    /\ ~wellFormed(request[b])
    /\ env.openAI
    /\ ~env.gemini
    /\ refusedWith(b, 503)

\* ------------------------------------------------------------ the insight call

\* most organic results of a SERP reply when the insight call may fail, or
\* return an empty text
MaxInsightOrganic == 2

\* one batch of one page with competitor analysis, on either provider
InitInsight ==
  \E sv \in BOOLEAN, model \in Models :
    InitWith(AllConfigured,
             [b \in Batches |-> IF b = 1 THEN PostRequest(1, sv, TRUE, model) ELSE Null],
             [b \in Batches |-> IF b = 1 THEN [k \in 1..1 |-> "valid"] ELSE <<>>])

NextInsight ==
  \/ \E b \in Batches : Handler(b)
  \/ \E b \in Batches : \E k \in DOMAIN page[b] : SearchVolumeResponse(b, k, SvOk(50000))
  \/ \E b \in Batches : \E k \in DOMAIN page[b] : \E n \in 1..MaxInsightOrganic :
       SerpResponse(b, k, SerpOk(n))
  \/ \E b \in Batches : \E k \in DOMAIN page[b] : \E u \in DOMAIN page[b][k].urls :
       ContentTimer(b, k, u)
  \/ \E b \in Batches : \E k \in DOMAIN page[b] : \E u \in DOMAIN page[b][k].urls :
       \E r \in {ContentError, ContentOk(3000)} : ContentResponse(b, k, u, r)
  \/ \E b \in Batches : \E k \in DOMAIN page[b] :
       \E r \in {InsightError, InsightEmpty, InsightOk} : InsightResponse(b, k, r)
  \/ \E b \in Batches : \E k \in DOMAIN page[b] : \E r \in repliesOf(generator[b][k]) :
       GenResponse(b, k, r)

SpecInsight == InitInsight /\ [][NextInsight]_vars

\* C33: analyzeCompetitorContent ends without throwing in each of its three
\* ways: given an empty list it returns null at once, no call made and the
\* ledger untouched; when its call fails it returns null and the ledger is
\* untouched; when its call succeeds the ledger has one record more, with the
\* tokens of the reply.
C33_InsightCallContained ==
  [][\A b \in Batches : \A k \in DOMAIN page[b] :
       (/\ k \in DOMAIN page'[b]
        /\ page[b][k].fetched.ca = "pending"
        /\ page'[b][k].fetched.ca \in {"noContent", "insightFailed", "ok"}) =>
         LET svc == handler[b].aiService
             before == usageTracker[svc]
             after == usageTracker'[svc]
             outcome == page'[b][k].fetched.ca
         IN /\ page'[b][k].ca = "done"
            /\ page'[b][k].pc \in {"gather", "generate"}
            /\ outcome = "noContent" =>
                 /\ page[b][k].ca = "content"
                 /\ page'[b][k].competitorInsights = Null
                 /\ after = before
            /\ outcome = "insightFailed" =>
                 /\ page[b][k].ca = "insight"
                 /\ page'[b][k].competitorInsights = Null
                 /\ after = before
            /\ outcome = "ok" =>
                 /\ page[b][k].ca = "insight"
                 /\ after.requests = before.requests + 1
                 /\ after.totalInputTokens = before.totalInputTokens + 30
                 /\ \A other \in Services \ {svc} : usageTracker'[other] = usageTracker[other]]_vars

\* the chain of a page has ended in each of the three ways: here, in a failed
\* insight call that left the ledger empty
C33_Witness ==
  \E b \in Batches : \E k \in DOMAIN page[b] :
    /\ page[b][k].fetched.ca = "insightFailed"
    /\ page[b][k].pc = "generate"
    /\ page[b][k].given.competitorInsights = Null
    /\ usageTracker[handler[b].aiService].requests = 0

\* ------------------------------------------------- the tally of a batch's calls

\* most pages of a request when the pages' insight and generation calls
\* interleave and a reply may come without a text
MaxTallyPages == 2

\* one batch of 1..MaxTallyPages pages with competitor analysis, on either provider
InitTally ==
  \E n \in 1..MaxTallyPages, model \in Models :
    InitWith(AllConfigured,
             [b \in Batches |-> IF b = 1 THEN PostRequest(n, FALSE, TRUE, model) ELSE Null],
             [b \in Batches |-> IF b = 1 THEN [k \in 1..n |-> "any"] ELSE <<>>])

NextTally ==
  \/ \E b \in Batches : Handler(b)
  \/ \E b \in Batches : \E k \in DOMAIN page[b] : SerpResponse(b, k, SerpOk(1))
  \/ \E b \in Batches : \E k \in DOMAIN page[b] : \E u \in DOMAIN page[b][k].urls :
       ContentTimer(b, k, u)
  \/ \E b \in Batches : \E k \in DOMAIN page[b] : \E u \in DOMAIN page[b][k].urls :
       ContentResponse(b, k, u, ContentOk(3000))
  \/ \E b \in Batches : \E k \in DOMAIN page[b] : \E r \in {InsightError, InsightOk} :
       InsightResponse(b, k, r)
  \/ \E b \in Batches : \E k \in DOMAIN page[b] :
       \E r \in {GenNoContent, GenText(lengthMin, 10, 20)} : GenResponse(b, k, r)

SpecTally == InitTally /\ [][NextTally]_vars

\* the pages of batch b whose insight call returned
insightsReturned(b) == {k \in DOMAIN page[b] : page[b][k].fetched.ca = "ok"}

\* C34: the summary a batch of concurrent pages is answered with counts exactly
\* the generation and insight calls of the batch that returned, whatever the
\* order of their replies, and its token totals are the sums over those calls.
C34_NoUpdateLost ==
  \A b \in Batches :
    responded(b) =>
      LET n == Len(request[b].pages)
          svc == handler[b].aiService
          usage == handler[b].response.summary.usage
          insights == Cardinality(insightsReturned(b))
      IN /\ usage.requestCount = sumPages(page[b], n, svc, "n") + insights
         /\ usage.totalInputTokens =
              sumPages(page[b], n, svc, "in") + insights * InsightOk.prompt_tokens
         /\ usage.totalOutputTokens =
              sumPages(page[b], n, svc, "out") + insights * InsightOk.completion_tokens

\* ------------------------------------------------------ an attempt that throws

\* C35: a turn in which an attempt of a page throws, because the provider
\* failed or because its reply carries no text, leaves every ledger as it was.
C35_ThrowLeavesLedger ==
  [][\A b \in Batches : \A k \in DOMAIN page[b] :
       (/\ k \in DOMAIN page'[b]
        /\ Len(page'[b][k].hist) = Len(page[b][k].hist) + 1
        /\ page'[b][k].hist[Len(page'[b][k].hist)].threw) =>
         usageTracker' = usageTracker]_vars

\* ------------------------------------------- the result an earlier attempt left

\* the attempts of history hist before the last one
earlier(hist) == {i \in 1..Len(hist) : i < Len(hist)}

\* C36: when the attempt number maxRetries of a page throws after an earlier
\* attempt had returned a text of the wrong length, the page ends as a failure
\* that carries an error and no description, and the ledger still holds the
\* records of the attempts that returned.
C36_EarlierResultDiscarded ==
  \A b \in Batches : \A k \in DOMAIN page[b] :
    LET p == page[b][k]
        svc == handler[b].aiService
    IN (/\ p.pc = "settled"
        /\ Len(p.hist) = maxRetries
        /\ p.hist[maxRetries].threw
        /\ \E i \in earlier(p.hist) : violating(p.hist[i])) =>
         /\ ~p.value.success
         /\ "description" \notin DOMAIN p.value
         /\ Truthy(p.value.error)
         /\ usageTracker[svc].requests >= sumReturned(p.hist, svc, "n")
         /\ usageTracker[svc].totalInputTokens >= sumReturned(p.hist, svc, "in")
         /\ sumReturned(p.hist, svc, "n") >= 1

\* a page has failed on its third attempt after its first attempt returned a
\* text that was too short and was recorded
C36_Witness ==
  \E b \in Batches : \E k \in DOMAIN page[b] :
    /\ page[b][k].pc = "settled"
    /\ Len(page[b][k].hist) = maxRetries
    /\ violating(page[b][k].hist[1])
    /\ page[b][k].hist[maxRetries].threw
    /\ ~page[b][k].value.success
    /\ usageTracker[handler[b].aiService].requests >= 1

\* ---------------------------------------------------- what generateWithRetry yields

\* the fields of a description result
resultFields == {"pageName", "description", "wordCount", "isValidLength", "usage"}

\* C37: the turn that ends generateWithRetry for a page either throws or
\* returns a result that is not null and has a description, a word count, a
\* length verdict and a usage; and every page result is either a success with
\* a description and no error, or a failure with an error and no description.
C37_NeverReturnsNull ==
  /\ [][\A b \in Batches : \A k \in DOMAIN page[b] :
          (/\ k \in DOMAIN page'[b]
           /\ page[b][k].pc = "generate"
           /\ page'[b][k].pc = "settled") =>
            LET svc == handler[b].aiService
                e == page'[b][k].hist[Len(page'[b][k].hist)]
                out == generateDescription(svc, usageTracker[svc], request[b].pages[k],
                                           e.reply)
                step == generateWithRetryStep(page[b][k], out)
            IN \/ step.kind = "throw"
               \/ /\ step.kind = "return"
                  /\ step.result # Null
                  /\ DOMAIN step.result = resultFields
                  /\ step.result.description # Null
                  /\ page'[b][k].value.success]_vars
  /\ [](\A b \in Batches : \A k \in DOMAIN page[b] :
          page[b][k].pc = "settled" =>
            LET value == page[b][k].value
            IN IF value.success
                 THEN /\ value.description # Null
                      /\ "error" \notin DOMAIN value
                 ELSE /\ Truthy(value.error)
                      /\ "description" \notin DOMAIN value)

\* a page has been given back the result of its last attempt, the third text of
\* the wrong length in a row
C37_Witness ==
  \E b \in Batches : \E k \in DOMAIN page[b] :
    /\ page[b][k].pc = "settled"
    /\ Len(page[b][k].hist) = maxRetries
    /\ \A i \in 1..maxRetries : violating(page[b][k].hist[i])
    /\ page[b][k].value.success
    /\ ~page[b][k].value.isValidLength

\* ------------------------------------------------------- hasCompetitorInsights

\* the competitor chain of page p ended in an insight text that is not empty
producedInsights(p) ==
  /\ p.fetched.ca = "ok"
  /\ p.fetched.insights # Null
  /\ Len(p.fetched.insights.text) > 0

\* an attempt of page p was given a context that begins with a word-count
\* instruction
feedbackGiven(p) ==
  \E j \in 1..Len(p.hist) :
    /\ p.hist[j].ctx # Null
    /\ Len(p.hist[j].ctx.text) >= 1
    /\ \E i \in 1..(j - 1) :
         /\ violating(p.hist[i])
         /\ p.hist[j].ctx.text[1] = instruction(p.hist[i].reply.content.words)

\* C38: the result of a page tells of competitor insights exactly when the
\* page's competitor chain ended in an insight text that is not empty, whether
\* or not word-count instructions were given to its later attempts.
C38_InsightsFlagFromChain ==
  \A b \in Batches : \A k \in DOMAIN page[b] :
    (page[b][k].pc = "settled" /\ page[b][k].value.success) =>
      (page[b][k].value.hasCompetitorInsights <=> producedInsights(page[b][k]))

\* a page whose insight call failed has succeeded on an attempt that was given
\* a word-count instruction, and its result tells of no insights
C38_Witness ==
  \E b \in Batches : \E k \in DOMAIN page[b] :
    /\ page[b][k].pc = "settled"
    /\ page[b][k].value.success
    /\ page[b][k].fetched.ca = "insightFailed"
    /\ feedbackGiven(page[b][k])
    /\ ~page[b][k].value.hasCompetitorInsights

\* ------------------------------------------------------- a request turned away

\* most pages of the batch that is in flight when another request is turned away
MaxRejectedPages == 2

\* the requests the handler turns away in a process that has the OpenAI
\* credential only: of the wrong method, for the provider without a credential,
\* or with a pages field that is missing, empty or too long
RejectedRequests ==
  {Request("GET", "array", 1, gpt4o),
   Request("POST", "array", 1, geminiFlash),
   Request("POST", "missing", 0, geminiFlash),
   Request("POST", "missing", 0, gpt4o),
   Request("POST", "array", 0, gpt4o),
   Request("POST", "array", maxPagesPerRequest + 1, gpt4o)}

\* a batch of 1..MaxRejectedPages pages on OpenAI, and a second request of the
\* kinds above that arrives before, while or after the batch is processed
InitRejected ==
  \E n \in 1..MaxRejectedPages, req \in RejectedRequests :
    \E g \in [1..n -> {"valid", "short"}] :
      InitWith([openAI |-> TRUE, gemini |-> FALSE, dataForSEO |-> TRUE],
               [b \in Batches |-> IF b = 1 THEN PostRequest(n, FALSE, FALSE, gpt4o) ELSE req],
               [b \in Batches |-> IF b = 1 THEN g ELSE [k \in 1..Len(req.pages) |-> "valid"]])

NextRejected ==
  \/ \E b \in Batches : Handler(b)
  \/ \E b \in Batches : \E k \in DOMAIN page[b] : \E r \in repliesOf(generator[b][k]) :
       GenResponse(b, k, r)

SpecRejected == InitRejected /\ [][NextRejected]_vars

\* the status the request is to be turned away with, 0 when it is to be accepted
rejection(req) ==
  IF req.method # "POST" THEN 405
  ELSE IF ~selectedHasKey(req) THEN 503
  ELSE IF ~wellFormed(req) THEN 400
  ELSE 0

\* C39: the turn in which the handler deals with a request of the wrong
\* method, for a provider that is not configured or with an invalid pages
\* field answers it 405, 503 or 400, resets no ledger, adds no record and
\* starts no page and no call; so a batch that is in flight at that moment is
\* still answered with the totals of its own calls.
C39_RejectionTouchesNothing ==
  /\ [][\A b \in Batches :
          (/\ request[b] # Null
           /\ handler[b].pc = "waiting"
           /\ handler'[b].pc # "waiting"
           /\ rejection(request[b]) # 0) =>
            /\ refusedWith(b, rejection(request[b]))'
            /\ usageTracker' = usageTracker
            /\ calls' = calls
            /\ own' = own
            /\ page' = page]_vars
  /\ [](\A b \in Batches :
          responded(b) =>
            /\ handler[b].response.summary.usage = getSummary(own[b])
            /\ handler[b].response.summary.usage.requestCount =
                 sumPages(page[b], Len(request[b].pages), handler[b].aiService, "n"))

\* a request for the provider without a credential has been answered 503, and
\* the batch on the other provider is running with a call in its ledger
C39_Witness ==
  \E b, c \in Batches :
    /\ handler[b].pc = "running"
    /\ usageTracker[handler[b].aiService].requests >= 1
    /\ \E k \in DOMAIN page[b] : page[b][k].pc = "generate"
    /\ request[c].method = "POST"
    /\ refusedWith(c, 503)

====
